---- MODULE Spec2Model ----
(***************************************************************************)
(* Record reconciliation and metric derivation of the issue-exchange       *)
(* analysis pipeline (src/src/parse_roam_json.py, parse_jsonld.py,          *)
(* calculate_metrics.py).                                                   *)
(*                                                                          *)
(* Representation of Python values:                                         *)
(*   None          the record None                                          *)
(*   str or None   S(x) = [s |-> x], x the characters; "" is S("")          *)
(*   str (a title) a sequence of runs of characters                         *)
(*   (person, timestamp)   [person |-> .., timestamp |-> ..]                *)
(*   datetime      [t |-> hours since the epoch on the local clock,         *)
(*                  tzinfo |-> None or [utcoffset |-> hours]]               *)
(*   dict / list   record or function / sequence                            *)
(***************************************************************************)
EXTENDS Integers, Sequences, FiniteSets, TLC

VARIABLES
    pc,                \* position in calculate_all_metrics / the run under study
    files,             \* which of the two input files exist: [jsonld, roam]
    validation,        \* what a call of validate_roam_export gave: its threshold and outcome
    event_list,        \* the argument of kaplan_meier: (time, is_event) per subject
    km,                \* what kaplan_meier returned: times and survival fractions
    graph,             \* the '@graph' array of the semantic export, as loaded
    funnel,            \* funnel_summary.json written by _write_funnel_summary
    evidence,          \* dge:summaryMetrics written by _write_evidence_jsonld
    jsonld_data,       \* analyze_graph(): experiment_pages, iss_nodes, res_nodes, relation_instances
    roam_pages,        \* the block-tree export: the stream of page objects
    roam_exp_data,     \* analyze_all_experiment_pages(): title -> facts
    roam_iss_data,     \* analyze_iss_pages(): title -> facts
    experiments,       \* merge_experiment_data()
    iss_nodes,         \* merge_iss_data()
    metrics,           \* results of the metric functions computed so far
    hash_order,        \* the order the interpreter's hash seed gives to sets of str
    linked_lists,      \* the lists _find_linked_res_nodes returned
    returned           \* what calculate_all_metrics returned, one entry for each run

vars == <<pc, files, validation, event_list, km,
          graph, funnel, evidence, jsonld_data, roam_pages, roam_exp_data, roam_iss_data,
          experiments, iss_nodes, metrics, hash_order, linked_lists, returned>>

----------------------------------------------------------------------------
(* Python values *)

None == [none |-> TRUE]

S(x) == [s |-> x]

\* bool(v) for a value that is None, a str, a tuple or a datetime
Truthy(v) == v # None /\ v # S("")

Range(s) == {s[i] : i \in 1..Len(s)}

\* datetime objects
Naive(h) == [t |-> h, tzinfo |-> None]
Aware(h, off) == [t |-> h, tzinfo |-> [utcoffset |-> off]]

\* A variant that counts a started day as a whole one
Days_RoundUp(a, b) == (a.t - b.t + 23) \div 24

\* (a - b).days for naive datetimes: timedelta.days is the floor of the difference
Days(a, b) == (a.t - b.t) \div 24

----------------------------------------------------------------------------
(* calculate_metrics.normalize_datetime, parse_jsonld.parse_date *)

normalize_datetime(dt) ==
    IF dt = None THEN None
    ELSE IF dt.tzinfo # None
         THEN [t |-> dt.t - dt.tzinfo.utcoffset, tzinfo |-> None]
         ELSE dt

\* An ISO date string is [iso |-> the clock reading it spells, suffix |-> its
\* zone designator]; any other non-empty string is [malformed |-> TRUE].
IsoString(h, sfx) == [iso |-> h, suffix |-> sfx]
Malformed == [malformed |-> TRUE]

\* date_str.replace('Z', '+00:00') followed by datetime.fromisoformat
UtcOffsetOf(sfx) ==
    CASE sfx = "Z"      -> 0
      [] sfx = "+00:00" -> 0
      [] sfx = "+02:00" -> 2
      [] sfx = "-05:00" -> 0 - 5

parse_date(date_str) ==
    IF ~Truthy(date_str) THEN None
    ELSE IF date_str = Malformed THEN None
    ELSE IF date_str.suffix = "" THEN Naive(date_str.iso)
    ELSE Aware(date_str.iso, UtcOffsetOf(date_str.suffix))

\* dict.get(key, default); the empty dict {} is the empty function << >>
Get(d, key, default) == IF key \in DOMAIN d THEN d[key] ELSE default

----------------------------------------------------------------------------
(* The block-tree export (parse_roam_json.py).                              *)
(* A block string is a sequence of tokens [k, v]: k = "txt" for the plain    *)
(* characters v, "ref" for a wiki reference [[v]], "link" for a             *)
(* markdown link [v](url).  White space between tokens is not represented   *)
(* (the patterns allow any amount of it there).  A block is                 *)
(* [string, create_time, children]; create_time counts ticks of 12 hours    *)
(* since the epoch, 0 standing for an absent or zero 'create-time'.  A page *)
(* is [title, create_time, children].                                       *)

Txt(c) == [k |-> "txt", v |-> c]
Ref(name) == [k |-> "ref", v |-> name]
Link(name) == [k |-> "link", v |-> name]

\* str.lower() on the runs of characters the model uses
Lower(c) ==
    CASE c = "Claimed By::" -> "claimed by::"
      [] c = "Issue "       -> "issue "
      [] c = "Created By::" -> "created by::"
      [] c = "Created by::" -> "created by::"
      [] c = "Made by::"    -> "made by::"
      [] c = "Made By::"    -> "made by::"
      [] c = "Creator::"    -> "creator::"
      [] c = "Author::"     -> "author::"
      [] c = "Experimental Log" -> "experimental log"
      [] c = "RES"          -> "res"
      [] c = "Long description of the work" -> "long description of the work"
      [] c = "Short"        -> "short"
      [] c = "Finding"      -> "finding"
      [] c = "Analysis"     -> "analysis"
      [] c = "[[RES]]"      -> "[[res]]"
      [] c = "[[ISS]]"      -> "[[iss]]"
      [] c = "Unrelated"    -> "unrelated"
      [] OTHER              -> c

IsTxt(tok, cs) == tok.k = "txt" /\ tok.v \in cs
IsTxtCI(tok, lcs) == tok.k = "txt" /\ Lower(tok.v) \in lcs

\* datetime.utcfromtimestamp(create_time / 1000), create_time in ticks
utcfromtimestamp(create_time) == Naive(12 * create_time)

get_block_timestamp(block) ==
    IF block.create_time # 0 THEN utcfromtimestamp(block.create_time) ELSE None

get_page_creation_time(page) ==
    IF page.create_time # 0 THEN utcfromtimestamp(page.create_time) ELSE None

\* The blocks of a tree in the order search_blocks / scan_blocks visit them
RECURSIVE Preorder(_)
Preorder(blocks) ==
    IF blocks = << >> THEN << >>
    ELSE <<Head(blocks)>> \o Preorder(Head(blocks).children) \o Preorder(Tail(blocks))

\* re.search(r'<field>::\s*\[\[([^\]]+)\]\]', s), case-sensitive: group(1) of the
\* leftmost match, or None.  fields: the spellings the pattern accepts;
\* prefix: the texts one of which the pattern requires just before the field
\* ({} when it requires none).
FieldRef(s, fields, prefix) ==
    LET hits == {i \in 1..(Len(s) - 1) :
                    /\ IsTxt(s[i], fields)
                    /\ prefix = {} \/ (i > 1 /\ IsTxt(s[i - 1], prefix))
                    /\ s[i + 1].k = "ref"}
    IN IF hits = {} THEN None
       ELSE S(s[(CHOOSE i \in hits : \A j \in hits : i <= j) + 1].v)

Pair(person, timestamp) == [person |-> person, timestamp |-> timestamp]

\* the sequence 'Issue ' 'Created By::' at i-1, i (any case)
IssueCreatedByAtCI(s, i) ==
    /\ i > 1
    /\ IsTxtCI(s[i - 1], {"issue "})
    /\ IsTxtCI(s[i], {"created by::"})

MatchesClaimedBy(s) == \E i \in 1..Len(s) : IsTxtCI(s[i], {"claimed by::"})
MatchesIssueCreatedBy(s) == \E i \in 1..Len(s) : IssueCreatedByAtCI(s, i)
MatchesMadeBy(s) == \E i \in 1..Len(s) : IsTxtCI(s[i], {"made by::"})
MatchesCreator(s) == \E i \in 1..Len(s) : IsTxtCI(s[i], {"creator::"})
MatchesCreatedBy(s) == \E i \in 1..Len(s) : IsTxtCI(s[i], {"created by::"})
MatchesAuthor(s) == \E i \in 1..Len(s) : IsTxtCI(s[i], {"author::"})
MatchesLog(s) == \E i \in 1..Len(s) : IsTxtCI(s[i], {"experimental log"})

\* re.compile(content_pattern, re.IGNORECASE).search(s) for the patterns the
\* parser uses
Search(content_pattern, s) ==
    CASE content_pattern = "Claimed By::" -> MatchesClaimedBy(s)
      [] content_pattern = "Issue Created By::" -> MatchesIssueCreatedBy(s)
      [] content_pattern = "Made [Bb]y::" -> MatchesMadeBy(s)
      [] content_pattern = "Creator::" -> MatchesCreator(s)
      [] content_pattern = "Created [Bb]y::" -> MatchesCreatedBy(s)
      [] content_pattern = "Author::" -> MatchesAuthor(s)
      [] content_pattern = "Experimental Log" -> MatchesLog(s)

\* find_block_by_content(page, content_pattern): the first block, depth first,
\* whose string the pattern matches
find_block_by_content(page, content_pattern) ==
    LET bs == Preorder(page.children)
        hits == {i \in 1..Len(bs) : Search(content_pattern, bs[i].string)}
    IN IF hits = {} THEN None
       ELSE bs[CHOOSE i \in hits : \A j \in hits : i <= j]

extract_claimed_by_timestamp(page) ==
    LET block == find_block_by_content(page, "Claimed By::")
    IN IF block = None THEN None
       ELSE LET person == FieldRef(block.string, {"Claimed By::"}, {})
                timestamp == get_block_timestamp(block)
            IN IF person # None
               THEN (IF timestamp # None THEN Pair(person, timestamp) ELSE None)
               ELSE None

extract_issue_created_by_timestamp(page) ==
    LET block == find_block_by_content(page, "Issue Created By::")
    IN IF block = None THEN None
       ELSE LET person == FieldRef(block.string, {"Created By::"}, {"Issue "})
                timestamp == get_block_timestamp(block)
            IN IF person # None
               THEN (IF timestamp # None THEN Pair(person, timestamp) ELSE None)
               ELSE None

\* one round of the loop over [r'Made [Bb]y::', r'Creator::']
MadeByFrom(block) ==
    IF block = None THEN None
    ELSE LET person == FieldRef(block.string, {"Made by::", "Made By::", "Creator::"}, {})
         IN IF person # None THEN Pair(person, get_block_timestamp(block)) ELSE None

extract_made_by_timestamp(page) ==
    LET byMade == MadeByFrom(find_block_by_content(page, "Made [Bb]y::"))
        byCreator == MadeByFrom(find_block_by_content(page, "Creator::"))
        block == find_block_by_content(page, "Created [Bb]y::")
    IN IF byMade # None THEN byMade
       ELSE IF byCreator # None THEN byCreator
       ELSE IF block = None THEN None
       ELSE IF MatchesIssueCreatedBy(block.string) THEN None
       ELSE LET person == FieldRef(block.string, {"Created By::", "Created by::"}, {})
            IN IF person # None THEN Pair(person, get_block_timestamp(block)) ELSE None

extract_author_from_page(page) ==
    LET block == find_block_by_content(page, "Author::")
    IN IF block = None THEN None
       ELSE LET person == FieldRef(block.string, {"Author::"}, {})
            IN IF person # None THEN Pair(person, get_block_timestamp(block)) ELSE None

\* r'\[\[.+\d{1,2}(st|nd|rd|th),?\s+\d{4}\]\]': a reference whose text ends in an
\* ordinal day and a year, with something before them
IsOrdinalDateRef(tok) == tok.k = "ref" /\ tok.v \in {"May 1st, 2024"}

\* r'\[\[([^\]]+\d{4})\]\]': a reference whose text ends in four digits, with
\* something before them
IsYearRef(tok) == tok.k = "ref" /\ tok.v \in {"May 1st, 2024", "Plan 2024"}

has_experimental_log(page) ==
    LET log_block == find_block_by_content(page, "Experimental Log")
    IN IF log_block = None THEN FALSE
       ELSE \E i \in 1..Len(log_block.children) :
               \E j \in 1..Len(log_block.children[i].string) :
                   IsOrdinalDateRef(log_block.children[i].string[j])

\* the 'timestamp' of each entry of get_experimental_log_entries, in order
get_experimental_log_entries(page) ==
    LET log_block == find_block_by_content(page, "Experimental Log")
        children == IF log_block = None THEN << >> ELSE log_block.children
        IsEntry(child) == \E j \in 1..Len(child.string) : IsYearRef(child.string[j])
    IN [i \in 1..Len(SelectSeq(children, IsEntry)) |->
           get_block_timestamp(SelectSeq(children, IsEntry)[i])]

\* min() of a non-empty list of naive datetimes
MinDT(dts) ==
    dts[CHOOSE i \in 1..Len(dts) :
           /\ \A j \in 1..Len(dts) : dts[i].t <= dts[j].t
           /\ \A j \in 1..(i - 1) : dts[j].t # dts[i].t]

IsSome(v) == v # None

\* A variant that scans the top-level blocks only
get_earliest_block_timestamp_TopLevelOnly(page) ==
    LET bs == page.children
        ts == SelectSeq([i \in 1..Len(bs) |-> get_block_timestamp(bs[i])], IsSome)
    IN IF ts = << >> THEN None ELSE MinDT(ts)

\* lines 323-349
get_earliest_block_timestamp(page) ==
    LET bs == Preorder(page.children)
        ts == SelectSeq([i \in 1..Len(bs) |-> get_block_timestamp(bs[i])], IsSome)
    IN IF ts = << >> THEN None ELSE MinDT(ts)

first_log_entry_of(log_entries) ==
    LET timestamps == SelectSeq(log_entries, IsSome)
    IN IF timestamps = << >> THEN None ELSE MinDT(timestamps)

\* the facts analyze_all_experiment_pages records for one page
ExperimentPageFacts(page) ==
    [page_created             |-> get_page_creation_time(page),
     earliest_block_timestamp |-> get_earliest_block_timestamp(page),
     claimed_by               |-> extract_claimed_by_timestamp(page),
     issue_created_by         |-> extract_issue_created_by_timestamp(page),
     made_by                  |-> extract_made_by_timestamp(page),
     author                   |-> extract_author_from_page(page),
     has_experimental_log     |-> has_experimental_log(page),
     first_log_entry          |-> first_log_entry_of(get_experimental_log_entries(page)),
     log_entry_count          |-> Len(get_experimental_log_entries(page))]

\* the facts analyze_iss_pages records for one page
IssPageFacts(page) ==
    [page_created         |-> get_page_creation_time(page),
     made_by              |-> extract_made_by_timestamp(page),
     author               |-> extract_author_from_page(page),
     has_experimental_log |-> has_experimental_log(page),
     first_log_entry      |-> first_log_entry_of(get_experimental_log_entries(page)),
     log_entry_count      |-> Len(get_experimental_log_entries(page))]

\* title.startswith('@') and '[[ISS]]' in title, titles being sequences of runs
StartsWithAt(title) == title # << >> /\ title[1] = "@"
ContainsISS(title) == \E i \in 1..Len(title) : title[i] = "[[ISS]]"

\* results[title] = facts
DictSet(d, key, val) ==
    [k \in (DOMAIN d) \cup {key} |-> IF k = key THEN val ELSE d[k]]

RECURSIVE analyze_all_experiment_pages(_)
analyze_all_experiment_pages(pages) ==
    IF pages = << >> THEN << >>
    ELSE LET page == pages[Len(pages)]
             results == analyze_all_experiment_pages(SubSeq(pages, 1, Len(pages) - 1))
         IN IF ~StartsWithAt(page.title) THEN results
            ELSE DictSet(results, page.title, ExperimentPageFacts(page))

RECURSIVE analyze_iss_pages(_)
analyze_iss_pages(pages) ==
    IF pages = << >> THEN << >>
    ELSE LET page == pages[Len(pages)]
             results == analyze_iss_pages(SubSeq(pages, 1, Len(pages) - 1))
         IN IF ~ContainsISS(page.title) THEN results
            ELSE DictSet(results, page.title, IssPageFacts(page))

----------------------------------------------------------------------------
(* The Record Merger (calculate_metrics.py).                                *)
(* A semantic-export node is the dict extract_node_metadata returns, without *)
(* the keys the merger only copies or never reads (modified, status,        *)
(* node_type, content).                                                     *)

EXPLICIT == S("explicit")
INFERRED == S("inferred")
MADE_BY == S("made_by")
CLAIMED_BY == S("claimed_by")
AUTHOR == S("author")
CREATOR == S("creator")

\* A variant of lines 58-66 in which a semantic-export claimed_by is kept when
\* there is one
ExplicitClaim_KeepExported(exp, roam_data) ==
    IF Truthy(Get(roam_data, "claimed_by", None))
    THEN <<IF Truthy(exp.claimed_by) THEN exp.claimed_by ELSE roam_data.claimed_by.person,
           roam_data.claimed_by.timestamp, EXPLICIT>>
    ELSE <<exp.claimed_by, None, None>>

\* lines 58-66: the claim before inference, <<claimed_by, claimed_by_timestamp, claim_type>>
ExplicitClaim(exp, roam_data) ==
    IF Truthy(Get(roam_data, "claimed_by", None))
    THEN <<roam_data.claimed_by.person, roam_data.claimed_by.timestamp, EXPLICIT>>
    ELSE <<exp.claimed_by, None, None>>

\* lines 69-72, 75-78, 81-84: a semantic-export field overridden by the person of
\* the block-tree (person, timestamp) pair when there is one
Overridden(value, pair) == IF Truthy(pair) THEN pair.person ELSE value

\* A variant of lines 86-97 that always records the creator as issue_created_by
InferClaim_AlwaysBackfill(exp, roam_data, c, issue_created_by) ==
    IF /\ ~Truthy(c[1])
       /\ Get(roam_data, "has_experimental_log", FALSE)
       /\ Get(roam_data, "log_entry_count", 0) > 0
       /\ Truthy(exp.creator)
    THEN <<exp.creator,
           IF Truthy(Get(roam_data, "first_log_entry", None))
           THEN roam_data.first_log_entry ELSE c[2],
           INFERRED,
           exp.creator>>
    ELSE <<c[1], c[2], c[3], issue_created_by>>

\* lines 86-97: the self-claim inferred from the experimental log;
\* c is <<claimed_by, claimed_by_timestamp, claim_type>>, the result adds
\* issue_created_by as a fourth component
InferClaim(exp, roam_data, c, issue_created_by) ==
    IF /\ ~Truthy(c[1])
       /\ Get(roam_data, "has_experimental_log", FALSE)
       /\ Get(roam_data, "log_entry_count", 0) > 0
       /\ Truthy(exp.creator)
    THEN <<exp.creator,
           IF Truthy(Get(roam_data, "first_log_entry", None))
           THEN roam_data.first_log_entry ELSE c[2],
           INFERRED,
           IF ~Truthy(issue_created_by) THEN exp.creator ELSE issue_created_by>>
    ELSE <<c[1], c[2], c[3], issue_created_by>>

\* A variant of lines 99-114 that tries claimed_by before made_by
ResolvePrimaryContributor_ClaimedFirst(made_by, claimed_by, author, creator) ==
    IF Truthy(claimed_by) THEN <<claimed_by, CLAIMED_BY>>
    ELSE IF Truthy(made_by) THEN <<made_by, MADE_BY>>
    ELSE IF Truthy(author) THEN <<author, AUTHOR>>
    ELSE IF Truthy(creator) THEN <<creator, CREATOR>>
    ELSE <<None, None>>

\* lines 99-114: <<primary_contributor, attribution_method>>
ResolvePrimaryContributor(made_by, claimed_by, author, creator) ==
    IF Truthy(made_by) THEN <<made_by, MADE_BY>>
    ELSE IF Truthy(claimed_by) THEN <<claimed_by, CLAIMED_BY>>
    ELSE IF Truthy(author) THEN <<author, AUTHOR>>
    ELSE IF Truthy(creator) THEN <<creator, CREATOR>>
    ELSE <<None, None>>

\* lines 119-131: page_created_candidates
PageCreatedCandidates(exp, roam_data) ==
    LET jsonld_created == IF Truthy(exp.created)
                          THEN normalize_datetime(parse_date(exp.created)) ELSE None
        roam_created == normalize_datetime(Get(roam_data, "page_created", None))
        earliest_block == normalize_datetime(Get(roam_data, "earliest_block_timestamp", None))
    IN SelectSeq(<<jsonld_created, roam_created, earliest_block>>, IsSome)

\* A variant of line 133 that takes the first candidate instead of the least
PageCreated_FirstCandidate(exp, roam_data) ==
    IF PageCreatedCandidates(exp, roam_data) # << >>
    THEN PageCreatedCandidates(exp, roam_data)[1] ELSE None

\* line 133
PageCreated(exp, roam_data) ==
    IF PageCreatedCandidates(exp, roam_data) # << >>
    THEN MinDT(PageCreatedCandidates(exp, roam_data)) ELSE None

\* one iteration of the loop of merge_experiment_data
MergeExperiment(exp, roam_data) ==
    LET c0 == ExplicitClaim(exp, roam_data)
        icb0 == Overridden(exp.issue_created_by, Get(roam_data, "issue_created_by", None))
        made_by == Overridden(exp.made_by, Get(roam_data, "made_by", None))
        author == Overridden(exp.author, Get(roam_data, "author", None))
        c == InferClaim(exp, roam_data, c0, icb0)
        pc_ == ResolvePrimaryContributor(made_by, c[1], author, exp.creator)
    IN [uid                  |-> exp.uid,
        title                |-> exp.title,
        creator              |-> exp.creator,
        page_created         |-> PageCreated(exp, roam_data),
        claimed_by           |-> c[1],
        claimed_by_timestamp |-> normalize_datetime(c[2]),
        issue_created_by     |-> c[4],
        made_by              |-> made_by,
        author               |-> author,
        primary_contributor  |-> pc_[1],
        attribution_method   |-> pc_[2],
        claim_type           |-> c[3],
        has_experimental_log |-> Get(roam_data, "has_experimental_log", FALSE),
        first_log_entry      |-> Get(roam_data, "first_log_entry", None),
        log_entry_count      |-> Get(roam_data, "log_entry_count", 0),
        is_claimed           |-> Truthy(c[1]) \/ Get(roam_data, "has_experimental_log", FALSE)]

merge_experiment_data(jd, roam_timestamps) ==
    [i \in 1..Len(jd.experiment_pages) |->
        MergeExperiment(jd.experiment_pages[i],
                        Get(roam_timestamps, jd.experiment_pages[i].title, << >>))]

\* lines 174-178
IssPageCreated(iss, roam_data) ==
    IF Truthy(iss.created) THEN normalize_datetime(parse_date(iss.created))
    ELSE IF Truthy(Get(roam_data, "page_created", None))
         THEN normalize_datetime(roam_data.page_created)
         ELSE None

\* lines 193-204: <<primary_contributor, attribution_method>>
ResolveIssPrimaryContributor(made_by, author, creator) ==
    IF Truthy(made_by) THEN <<made_by, MADE_BY>>
    ELSE IF Truthy(author) THEN <<author, AUTHOR>>
    ELSE IF Truthy(creator) THEN <<creator, CREATOR>>
    ELSE <<None, None>>

\* one iteration of the loop of merge_iss_data
MergeIss(iss, roam_data) ==
    LET made_by == Overridden(iss.made_by, Get(roam_data, "made_by", None))
        author == Overridden(iss.author, Get(roam_data, "author", None))
        pc_ == ResolveIssPrimaryContributor(made_by, author, iss.creator)
    IN [uid                  |-> iss.uid,
        title                |-> iss.title,
        creator              |-> iss.creator,
        page_created         |-> IssPageCreated(iss, roam_data),
        made_by              |-> made_by,
        author               |-> author,
        primary_contributor  |-> pc_[1],
        attribution_method   |-> pc_[2],
        has_experimental_log |-> Get(roam_data, "has_experimental_log", FALSE),
        first_log_entry      |-> normalize_datetime(Get(roam_data, "first_log_entry", None)),
        log_entry_count      |-> Get(roam_data, "log_entry_count", 0),
        is_claimed           |-> Get(roam_data, "has_experimental_log", FALSE)]

merge_iss_data(jd, roam_iss) ==
    [i \in 1..Len(jd.iss_nodes) |->
        MergeIss(jd.iss_nodes[i], Get(roam_iss, jd.iss_nodes[i].title, << >>))]

----------------------------------------------------------------------------
(* calculate_metrics.py: the metric functions.  A number that may be None   *)
(* is Num(k); a percentage or an average is kept in units of its last       *)
(* decimal (tenths for round(x, 1), hundredths for round(x, 2)).            *)

Num(k) == [n |-> k]

RECURSIVE Sum(_)
Sum(ns) == IF ns = << >> THEN 0 ELSE Head(ns) + Sum(Tail(ns))

\* round(num / den * scale', d) in units of 10^-d, scale = scale' * 10^d: the
\* nearest integer to num * scale / den, a tie going to the even one
Round(num, den, scale) ==
    LET q == (2 * num * scale + den) \div (2 * den)
    IN IF (2 * num * scale + den) % (2 * den) = 0 /\ q % 2 = 1 THEN q - 1 ELSE q

\* sorted(xs, key=...): a stable sort by an integer key; keys[i] is the key of xs[i]
RECURSIVE SortedBy(_, _)
SortedBy(xs, keys) ==
    IF xs = << >> THEN << >>
    ELSE LET i == CHOOSE i \in 1..Len(xs) :
                     /\ \A j \in 1..Len(xs) : keys[i] <= keys[j]
                     /\ \A j \in 1..(i - 1) : keys[j] # keys[i]
             Drop(s) == [j \in 1..(Len(s) - 1) |-> IF j < i THEN s[j] ELSE s[j + 1]]
         IN <<xs[i]>> \o SortedBy(Drop(xs), Drop(keys))

\* A variant of line 246 that leaves the claimed issues out of the total
total_issues_of_UnclaimedOnly(total_claimed, unclaimed_iss) == unclaimed_iss

\* line 246
total_issues_of(total_claimed, unclaimed_iss) == total_claimed + unclaimed_iss

\* lines 225-278
calculate_conversion_rate(exps, isss) ==
    LET IsClaimed(e) == Truthy(e.claimed_by)
        claimed_experiments == SelectSeq(exps, IsClaimed)
        IsExplicit(e) == e.claim_type = EXPLICIT
        IsInferred(e) == e.claim_type = INFERRED
        HasLog(i) == i.has_experimental_log
        NoLog(i) == ~i.has_experimental_log
        iss_with_log == SelectSeq(isss, HasLog)
        unclaimed_iss == SelectSeq(isss, NoLog)
        total_claimed == Len(claimed_experiments) + Len(iss_with_log)
        total_issues == total_issues_of(total_claimed, Len(unclaimed_iss))
        IsCross(e) == /\ Truthy(e.issue_created_by) /\ Truthy(e.claimed_by)
                      /\ e.issue_created_by # e.claimed_by
        IsSelf(e) == /\ Truthy(e.issue_created_by) /\ Truthy(e.claimed_by)
                     /\ e.issue_created_by = e.claimed_by
        cross_person_claims == SelectSeq(claimed_experiments, IsCross)
        self_claims == SelectSeq(claimed_experiments, IsSelf)
    IN [conversion_rate_percent |-> IF total_issues > 0
                                    THEN Round(total_claimed, total_issues, 1000) ELSE 0,
        total_claimed           |-> total_claimed,
        claimed_experiments     |-> Len(claimed_experiments),
        explicit_claims         |-> Len(SelectSeq(claimed_experiments, IsExplicit)),
        inferred_claims         |-> Len(SelectSeq(claimed_experiments, IsInferred)),
        iss_with_activity       |-> Len(iss_with_log),
        unclaimed_iss           |-> Len(unclaimed_iss),
        total_issues            |-> total_issues,
        cross_person_claims     |-> Len(cross_person_claims),
        self_claims             |-> Len(self_claims),
        unknown_claim_type      |-> Len(claimed_experiments) - Len(cross_person_claims)
                                       - Len(self_claims),
        claimed_experiment_list |-> claimed_experiments,
        cross_person_claim_list |-> cross_person_claims,
        self_claim_list         |-> self_claims]

\* lines 281-328
calculate_time_to_claim(exps) ==
    LET Timed(e) == /\ Truthy(e.claimed_by) /\ e.page_created # None
                    /\ e.claimed_by_timestamp # None
        kept == SelectSeq(exps, Timed)
        times_to_claim ==
            [i \in 1..Len(kept) |->
                [title             |-> kept[i].title,
                 issue_created_by  |-> kept[i].issue_created_by,
                 claimed_by        |-> kept[i].claimed_by,
                 page_created      |-> kept[i].page_created,
                 claimed_timestamp |-> kept[i].claimed_by_timestamp,
                 days_to_claim     |-> Days(kept[i].claimed_by_timestamp,
                                            kept[i].page_created)]]
        days_list == [i \in 1..Len(kept) |-> times_to_claim[i].days_to_claim]
        days_list_sorted == SortedBy(days_list, days_list)
    IN IF times_to_claim = << >>
       THEN [count |-> 0, avg_days |-> None, min_days |-> None, max_days |-> None,
             median_days |-> None, details |-> << >>]
       ELSE [count       |-> Len(times_to_claim),
             avg_days    |-> Num(Round(Sum(days_list), Len(days_list), 10)),
             min_days    |-> Num(days_list_sorted[1]),
             max_days    |-> Num(days_list_sorted[Len(days_list_sorted)]),
             median_days |-> Num(days_list_sorted[(Len(days_list_sorted) \div 2) + 1]),
             details     |-> SortedBy(times_to_claim, days_list)]

\* Counter(...).most_common() over the (from, to) pairs of the cross-person
\* claims: the distinct pairs in order of first appearance, sorted stably by
\* falling count
exchange_pairs(cross_person) ==
    LET pairs == [i \in 1..Len(cross_person) |->
                     [from |-> cross_person[i].issue_created_by,
                      to   |-> cross_person[i].claimed_by]]
        firsts == {i \in 1..Len(pairs) : \A j \in 1..(i - 1) : pairs[j] # pairs[i]}
        IsFirst(i) == i \in firsts
        order == SelectSeq([i \in 1..Len(pairs) |-> i], IsFirst)
        Count(p) == Cardinality({i \in 1..Len(pairs) : pairs[i] = p})
        counted == [k \in 1..Len(order) |->
                       [from  |-> pairs[order[k]].from,
                        to    |-> pairs[order[k]].to,
                        count |-> Count(pairs[order[k]])]]
    IN SortedBy(counted, [k \in 1..Len(counted) |-> 0 - counted[k].count])

\* A variant of lines 630-655 that takes a claim with no issue creator for a
\* cross-person claim
claim_class_NoUnknown(exp) ==
    IF ~Truthy(exp.claimed_by) THEN "skipped"
    ELSE IF ~Truthy(exp.issue_created_by) THEN "cross_person"
    ELSE IF exp.issue_created_by # exp.claimed_by THEN "cross_person"
    ELSE "self"

\* A variant of lines 630-655 that tests the issue creator for None only
claim_class_NullCreatorOnly(exp) ==
    IF ~Truthy(exp.claimed_by) THEN "skipped"
    ELSE IF exp.issue_created_by = None THEN "unknown"
    ELSE IF exp.issue_created_by # exp.claimed_by THEN "cross_person"
    ELSE "self"

\* lines 630-655: the list an experiment is appended to
claim_class(exp) ==
    IF ~Truthy(exp.claimed_by) THEN "skipped"
    ELSE IF ~Truthy(exp.issue_created_by) THEN "unknown"
    ELSE IF exp.issue_created_by # exp.claimed_by THEN "cross_person"
    ELSE "self"

\* lines 619-678
calculate_cross_person_claims(exps) ==
    LET IsUnknown(e) == claim_class(e) = "unknown"
        IsCross(e) == claim_class(e) = "cross_person"
        IsSelf(e) == claim_class(e) = "self"
        us == SelectSeq(exps, IsUnknown)
        cs == SelectSeq(exps, IsCross)
        ss == SelectSeq(exps, IsSelf)
        cross_person ==
            [i \in 1..Len(cs) |->
                [title             |-> cs[i].title,
                 issue_created_by  |-> cs[i].issue_created_by,
                 claimed_by        |-> cs[i].claimed_by,
                 page_created      |-> cs[i].page_created,
                 claimed_timestamp |-> cs[i].claimed_by_timestamp]]
        self_claims ==
            [i \in 1..Len(ss) |->
                [title |-> ss[i].title, person |-> ss[i].claimed_by,
                 page_created |-> ss[i].page_created]]
        unknown ==
            [i \in 1..Len(us) |->
                [title |-> us[i].title, claimed_by |-> us[i].claimed_by,
                 issue_created_by |-> None]]
    IN [cross_person_count   |-> Len(cross_person),
        self_claim_count     |-> Len(self_claims),
        unknown_count        |-> Len(unknown),
        total_claimed        |-> Len(cross_person) + Len(self_claims) + Len(unknown),
        idea_exchange_rate   |-> IF Len(cross_person) + Len(self_claims) > 0
                                 THEN Round(Len(cross_person),
                                            Len(cross_person) + Len(self_claims), 1000)
                                 ELSE 0,
        exchange_pairs       |-> exchange_pairs(cross_person),
        cross_person_details |-> cross_person,
        self_claim_details   |-> self_claims]

----------------------------------------------------------------------------
(* calculate_metrics.py: linking Results to experiments *)

\* str.lower() of a title
LowerTitle(title) == [i \in 1..Len(title) |-> Lower(title[i])]

\* needle in hay, for strings given as sequences of runs
Contains(hay, needle) ==
    \E k \in 0..(Len(hay) - Len(needle)) :
        \A j \in 1..Len(needle) : hay[k + j] = needle[j]

\* len() of a run of characters
CharLen(c) ==
    CASE c = "long description of the work" -> 28
      [] c = "short" -> 5
      [] c = "home" -> 4
      [] c = "analysis" -> 8
      [] c = "/" -> 1
      [] c = "@" -> 1
      [] c = " - " -> 3
      [] OTHER -> 2

\* len() of a string given as a sequence of runs
StrLen(runs) == Sum([i \in 1..Len(runs) |-> CharLen(runs[i])])

\* line 434: the least length of a short name that tier 3 will match on
MinShortNameLen == 20

\* id.replace('pages:', '')
StripPages(id) ==
    CASE id = "pages:e1" -> "e1"
      [] id = "pages:e2" -> "e2"
      [] id = "pages:r1" -> "r1"
      [] id = "pages:r2" -> "r2"
      [] id = "pages:i1" -> "i1"
      [] id = "pages:n1" -> "n1"
      [] OTHER -> id

\* lines 341-342: rel.get('source', '') is None when the instance holds the key
\* with no value, and None has no replace(): AttributeError
build_relation_map_raises(relation_instances) ==
    \E i \in 1..Len(relation_instances) :
        \/ relation_instances[i].source = None
        \/ relation_instances[i].destination = None

\* lines 331-350: uid -> set of Result uids, when nothing is raised
build_relation_map(relation_instances, res_uid_set) ==
    LET src(i) == StripPages(relation_instances[i].source.s)
        dst(i) == StripPages(relation_instances[i].destination.s)
        rels == 1..Len(relation_instances)
        keys == {src(i) : i \in {j \in rels : dst(j) \in res_uid_set}}
                \cup {dst(i) : i \in {j \in rels : src(j) \in res_uid_set}}
    IN [k \in keys |->
           {dst(i) : i \in {j \in rels : src(j) = k /\ dst(j) \in res_uid_set}}
           \cup {src(i) : i \in {j \in rels : dst(j) = k /\ src(j) \in res_uid_set}}]

\* {r['uid']: r for r in res_nodes}: the last Result of each uid
res_by_uid_of(res_nodes) ==
    [u \in {res_nodes[i].uid : i \in 1..Len(res_nodes)} |->
        res_nodes[CHOOSE i \in 1..Len(res_nodes) :
                     /\ res_nodes[i].uid = u
                     /\ \A j \in (i + 1)..Len(res_nodes) : res_nodes[j].uid # u]]

\* Iterating over a set of str visits its members in an order fixed by the
\* interpreter's hash seed; order lists every string in the seed's order.
IterationOrder(set, order) ==
    LET Member(x) == x \in set
    IN SelectSeq(order, Member)

\* lines 367-377
res_primary_contributor(res) ==
    IF Truthy(res.made_by) THEN <<res.made_by, MADE_BY>>
    ELSE IF Truthy(res.author) THEN <<res.author, AUTHOR>>
    ELSE IF Truthy(res.creator) THEN <<res.creator, CREATOR>>
    ELSE <<None, None>>

\* the dict appended to linked_res for a Result, pcm being its
\* <<primary_contributor, attribution_method>>
LinkedEntry(res, pcm) ==
    [uid                 |-> res.uid,
     title               |-> res.title,
     created             |-> normalize_datetime(parse_date(res.created)),
     creator             |-> res.creator,
     made_by             |-> res.made_by,
     author              |-> res.author,
     primary_contributor |-> pcm[1],
     attribution_method  |-> pcm[2]]

\* A variant in which seen_uids is never filled
SeenUids_Empty(linked) == {}

\* the uids in seen_uids after linked has been collected
SeenUids(linked) == {linked[i].uid : i \in 1..Len(linked)}

\* 'if res_created:' ... linked_res.append(...)
AppendIfCreated(linked, entry) ==
    IF entry.created # None THEN Append(linked, entry) ELSE linked

\* lines 379-398: the loop over relation_map[exp_uid], uids the members of
\* that set still to visit, in iteration order
RECURSIVE Tier1(_, _, _)
Tier1(uids, res_by_uid, linked) ==
    IF uids = << >> THEN linked
    ELSE Tier1(Tail(uids), res_by_uid,
               IF Head(uids) \in DOMAIN res_by_uid /\ Head(uids) \notin SeenUids(linked)
               THEN AppendIfCreated(linked,
                        LinkedEntry(res_by_uid[Head(uids)],
                                    res_primary_contributor(res_by_uid[Head(uids)])))
               ELSE linked)

\* lines 406-424 and 435-454: the loop over res_nodes that keeps the Results
\* whose lower-cased title contains needle
RECURSIVE TitleTier(_, _, _)
TitleTier(res_nodes, needle, linked) ==
    IF res_nodes = << >> THEN linked
    ELSE TitleTier(Tail(res_nodes), needle,
                   IF /\ Head(res_nodes).uid \notin SeenUids(linked)
                      /\ Contains(LowerTitle(Head(res_nodes).title), needle)
                   THEN AppendIfCreated(linked,
                            LinkedEntry(Head(res_nodes),
                                        res_primary_contributor(Head(res_nodes))))
                   ELSE linked)

\* lines 428-431: the lower-cased title without '@', cut after its first '/'
exp_short_name_of(title) ==
    LET NotAt(c) == c # "@"
        exp_name == SelectSeq(LowerTitle(title), NotAt)
        slashes == {i \in 1..Len(exp_name) : exp_name[i] = "/"}
    IN IF slashes = {} THEN exp_name
       ELSE SubSeq(exp_name, (CHOOSE i \in slashes : \A j \in slashes : i <= j) + 1,
                   Len(exp_name))

\* lines 379-398: method 1, the relation instances
Method1(exp, res_by_uid, relation_map, uid_order) ==
    IF exp.uid \in DOMAIN relation_map
    THEN Tier1(IterationOrder(relation_map[exp.uid], uid_order), res_by_uid, << >>)
    ELSE << >>

\* A variant of method 2 that scans the titles whatever method 1 found
Method2_AlwaysScans(exp, res_nodes, linked) ==
    TitleTier(res_nodes, <<"[[">> \o LowerTitle(exp.title) \o <<"]]">>, linked)

\* lines 400-424: method 2, a [[title]] back-reference in the Result's title
Method2(exp, res_nodes, linked) ==
    IF linked = << >>
    THEN TitleTier(res_nodes, <<"[[">> \o LowerTitle(exp.title) \o <<"]]">>, linked)
    ELSE linked

\* lines 426-454: method 3, the whole short name in the Result's title
Method3(res_nodes, exp_short_name, linked) ==
    IF linked = << >> /\ StrLen(exp_short_name) >= MinShortNameLen
    THEN TitleTier(res_nodes, exp_short_name, linked)
    ELSE linked

\* lines 353-456; uid_order is the hash seed's order of the uid strings
find_linked_res_nodes(exp, res_nodes, res_by_uid, relation_map, uid_order) ==
    Method3(res_nodes, exp_short_name_of(exp.title),
            Method2(exp, res_nodes, Method1(exp, res_by_uid, relation_map, uid_order)))

\* the experiments with is_claimed, which metrics 3 and 4 go through
claimed_of(exps) ==
    LET IsClaimed(exp) == exp.is_claimed
    IN SelectSeq(exps, IsClaimed)

\* the list _find_linked_res_nodes returns for each experiment of kept
linked_res_lists(kept, res_nodes, res_by_uid, relation_map, uid_order) ==
    [i \in 1..Len(kept) |->
        find_linked_res_nodes(kept[i], res_nodes, res_by_uid, relation_map, uid_order)]

\* A variant of lines 487-490 that takes the claim timestamp of any claim
ref_timestamp_of_AnyClaimTimestamp(exp) ==
    IF exp.claimed_by_timestamp # None
    THEN exp.claimed_by_timestamp ELSE exp.page_created

\* lines 484-495: the reference timestamp of an experiment
ref_timestamp_of(exp) ==
    IF exp.claim_type = EXPLICIT /\ exp.claimed_by_timestamp # None
    THEN exp.claimed_by_timestamp ELSE exp.page_created

\* min(linked_res, key=lambda x: x['created']): the first of the least
earliest_res_of(linked_res) ==
    linked_res[CHOOSE i \in 1..Len(linked_res) :
                  /\ \A j \in 1..Len(linked_res) :
                         linked_res[i].created.t <= linked_res[j].created.t
                  /\ \A j \in 1..(i - 1) :
                         linked_res[j].created.t # linked_res[i].created.t]

\* lines 502-512: the entry of 'results' for one experiment
FirstResultEntry(exp, ref_timestamp, earliest_res, total_linked_res) ==
    [experiment_title     |-> exp.title,
     claimed_by           |-> exp.claimed_by,
     ref_timestamp        |-> ref_timestamp,
     first_res_title      |-> earliest_res.title,
     first_res_created    |-> earliest_res.created,
     first_res_creator    |-> earliest_res.creator,
     first_res_primary_contributor |->
         IF Truthy(earliest_res.primary_contributor)
         THEN earliest_res.primary_contributor ELSE earliest_res.creator,
     days_to_first_result |-> Days(earliest_res.created, ref_timestamp),
     total_linked_res     |-> total_linked_res]

\* lines 480-512: 'results', lists[i] being the Results linked to kept[i]
FirstResults(kept, lists) ==
    LET Counted(i) == ref_timestamp_of(kept[i]) # None /\ lists[i] # << >>
        idx == SelectSeq([i \in 1..Len(kept) |-> i], Counted)
    IN [k \in 1..Len(idx) |->
           FirstResultEntry(kept[idx[k]], ref_timestamp_of(kept[idx[k]]),
                            earliest_res_of(lists[idx[k]]), Len(lists[idx[k]]))]

\* lines 514-532
FirstResultSummary(results, days_list, sorted_days) ==
    IF results = << >>
    THEN [count |-> 0, avg_days |-> None, min_days |-> None, max_days |-> None,
          details |-> << >>]
    ELSE [count    |-> Len(results),
          avg_days |-> Num(Round(Sum(days_list), Len(days_list), 10)),
          min_days |-> Num(sorted_days[1]),
          max_days |-> Num(sorted_days[Len(sorted_days)]),
          details  |-> SortedBy(results, days_list)]

DaysToFirstResult(results) == [i \in 1..Len(results) |-> results[i].days_to_first_result]

FirstResultMetric(results, days_list) ==
    FirstResultSummary(results, days_list, SortedBy(days_list, days_list))

\* lines 459-532, lists being what _find_linked_res_nodes returns for each
\* experiment with is_claimed
calculate_time_to_first_result(kept, lists) ==
    FirstResultMetric(FirstResults(kept, lists), DaysToFirstResult(FirstResults(kept, lists)))

\* A variant of lines 559-581 that leaves out the linked Results
contributors_of_ExperimentOnly(exp, linked_res) ==
    {p \in {exp.issue_created_by, exp.claimed_by, exp.creator, exp.primary_contributor} :
        Truthy(p)}

\* lines 559-581: the set 'contributors' of one experiment
contributors_of(exp, linked_res) ==
    {p \in {exp.issue_created_by, exp.claimed_by, exp.creator, exp.primary_contributor} :
        Truthy(p)}
    \cup {linked_res[i].creator : i \in {j \in 1..Len(linked_res) :
                                            Truthy(linked_res[j].creator)}}
    \cup {linked_res[i].primary_contributor :
             i \in {j \in 1..Len(linked_res) : Truthy(linked_res[j].primary_contributor)}}

\* lines 583-590: the entry of contributor_data for one experiment;
\* person_order is the hash seed's order of the person strings
ContributorEntry(exp, contributors, person_order) ==
    [title            |-> exp.title,
     contributors     |-> IterationOrder(contributors, person_order),
     count            |-> Cardinality(contributors),
     issue_created_by |-> exp.issue_created_by,
     claimed_by       |-> exp.claimed_by]

ContributorData(kept, lists, person_order) ==
    [i \in 1..Len(kept) |->
        ContributorEntry(kept[i], contributors_of(kept[i], lists[i]), person_order)]

\* Counter(counts) as a dict sorted by key
distribution_of(counts) ==
    [c \in {counts[i] : i \in 1..Len(counts)} |->
        Cardinality({i \in 1..Len(counts) : counts[i] = c})]

\* lines 592-616
ContributorSummary(contributor_data, counts) ==
    LET Multi(c) == c > 1
        Single(c) == c = 1
    IN IF contributor_data = << >>
       THEN [experiments_analyzed |-> 0, avg_contributors |-> None,
             distribution |-> << >>, multi_contributor_count |-> 0,
             single_contributor_count |-> 0, details |-> << >>]
       ELSE [experiments_analyzed     |-> Len(contributor_data),
             avg_contributors         |-> Num(Round(Sum(counts), Len(counts), 100)),
             distribution             |-> distribution_of(counts),
             multi_contributor_count  |-> Len(SelectSeq(counts, Multi)),
             single_contributor_count |-> Len(SelectSeq(counts, Single)),
             details                  |-> SortedBy(contributor_data,
                                                   [i \in 1..Len(counts) |-> 0 - counts[i]])]

ContributorCounts(contributor_data) ==
    [i \in 1..Len(contributor_data) |-> contributor_data[i].count]

\* lines 535-616, lists being what _find_linked_res_nodes returns for each
\* experiment with is_claimed
calculate_unique_contributors(kept, lists, person_order) ==
    ContributorSummary(ContributorData(kept, lists, person_order),
                       ContributorCounts(ContributorData(kept, lists, person_order)))

\* what metrics 3 and 4 get from _find_linked_res_nodes, the lookup structures
\* built as in lines 474-476 and 549-551
LinkAll(exps, res_nodes, relation_instances, uid_order) ==
    linked_res_lists(claimed_of(exps), res_nodes, res_by_uid_of(res_nodes),
                     build_relation_map(relation_instances,
                                        {res_nodes[i].uid : i \in 1..Len(res_nodes)}),
                     uid_order)

----------------------------------------------------------------------------
(* The metric functions as callable in any order *)

MetricNames ==
    {"conversion_rate", "time_to_claim", "time_to_first_result", "unique_contributors",
     "cross_person_claims"}

\* the metrics that call _find_linked_res_nodes
LinkingMetrics == {"time_to_first_result", "unique_contributors"}

\* the result of the metric function behind a key of the returned dict, lists
\* being what _find_linked_res_nodes returned to it
MetricOf(name, exps, isss, lists, order) ==
    CASE name = "conversion_rate" -> calculate_conversion_rate(exps, isss)
      [] name = "time_to_claim" -> calculate_time_to_claim(exps)
      [] name = "time_to_first_result" ->
            calculate_time_to_first_result(claimed_of(exps), lists)
      [] name = "unique_contributors" ->
            calculate_unique_contributors(claimed_of(exps), lists, order.persons)
      [] name = "cross_person_claims" -> calculate_cross_person_claims(exps)

\* A variant in which calculate_time_to_claim stores the page_created it read
\* back into each record under a new key
WritesOf_CachesOnRecord(name, records) ==
    [i \in 1..Len(records) |->
        IF name = "time_to_claim" /\ "page_created" \in DOMAIN records[i]
        THEN [cached_created |-> records[i].page_created]
        ELSE << >>]

\* The keys a metric function assigns in each record of a list it is passed.
\* Lines 225-680 assign none: every append, add and setdefault there is on a
\* list, set or dict the function created, and sorted() and the list
\* comprehensions build new lists.
WritesOf(name, records) == [i \in 1..Len(records) |-> << >>]

\* a list after the given keys are assigned in its records
ApplyWrites(records, writes) == [i \in 1..Len(records) |-> writes[i] @@ records[i]]

----------------------------------------------------------------------------
(* create_evidence_bundle._write_funnel_summary *)

\* line 110
claimed_without_results_of(total_claimed, with_results) == total_claimed - with_results

\* lines 80-117: the summary written to funnel_summary.json
funnel_summary(conv, ttr, cross) ==
    LET total_issues == conv.total_issues
        total_claimed == conv.total_claimed
        with_results == ttr.count
        total_res == IF ttr.details # << >>
                     THEN Sum([i \in 1..Len(ttr.details) |-> ttr.details[i].total_linked_res])
                     ELSE 0
    IN [funnel |->
            [total_issues             |-> total_issues,
             claimed_experiments      |-> total_claimed,
             experiments_with_results |-> with_results,
             total_res_nodes          |-> total_res],
        conversion_rates |->
            [issue_to_claim_percent  |-> conv.conversion_rate_percent,
             claim_to_result_percent |-> IF total_claimed > 0
                                         THEN Round(with_results, total_claimed, 1000) ELSE 0,
             issue_to_result_percent |-> IF total_issues > 0
                                         THEN Round(with_results, total_issues, 1000) ELSE 0],
        claiming_type_breakdown |->
            [explicitly_claimed |-> conv.explicit_claims,
             inferred_claiming  |-> conv.inferred_claims,
             iss_with_activity  |-> conv.iss_with_activity],
        result_breakdown |->
            [claimed_with_results    |-> with_results,
             claimed_without_results |-> claimed_without_results_of(total_claimed, with_results),
             avg_res_per_producing_experiment |->
                 IF with_results > 0 THEN Round(total_res, with_results, 10) ELSE 0],
        claiming_authorship |->
            [self_claimed               |-> conv.self_claims,
             cross_person_claiming      |-> conv.cross_person_claims,
             idea_exchange_rate_percent |-> cross.idea_exchange_rate]]

----------------------------------------------------------------------------
(* create_evidence_bundle._write_evidence_jsonld: dge:summaryMetrics *)

\* A variant of line 449 that divides whatever total_claimed is: Python raises
\* ZeroDivisionError on a zero divisor
claiming_to_result_percent_Unguarded(ttr, conv) ==
    IF conv.total_claimed = 0 THEN [raised |-> "ZeroDivisionError"]
    ELSE Num(Round(ttr.count, conv.total_claimed, 1000))

\* line 449
claiming_to_result_percent(ttr, conv) ==
    IF conv.total_claimed > 0
    THEN Num(Round(ttr.count, conv.total_claimed, 1000)) ELSE Num(0)

\* line 293: total_res
total_res_of(ttr) ==
    IF ttr.details # << >>
    THEN Sum([i \in 1..Len(ttr.details) |-> ttr.details[i].total_linked_res]) ELSE 0

\* lines 440-450
summaryMetrics(conv, ttr) ==
    [total_issues               |-> conv.total_issues,
     claimed_experiments        |-> conv.total_claimed,
     explicitly_claimed         |-> conv.explicit_claims,
     inferred_claiming          |-> conv.inferred_claims,
     iss_with_activity          |-> conv.iss_with_activity,
     experiments_with_results   |-> ttr.count,
     total_res_nodes            |-> total_res_of(ttr),
     conversion_rate_percent    |-> conv.conversion_rate_percent,
     claiming_to_result_percent |-> claiming_to_result_percent(ttr, conv)]

----------------------------------------------------------------------------
(* The semantic export (parse_jsonld.py).  A raw node of '@graph' is a      *)
(* function from its keys to values: '@id', '@type', 'creator', 'source',   *)
(* 'destination' and 'predicate' are str (S) or null (None), 'created' is   *)
(* an ISO string, 'title' a sequence of runs and 'content' a sequence of    *)
(* tokens as in the block strings.                                          *)

\* str.strip() on the names the model uses
strip(v) == IF v = " " THEN "" ELSE v

\* re.search(rf'{field}::\s*<link>', content), case-sensitive: group(1).strip() of
\* the leftmost match, or None.  fields: the spellings the pattern accepts;
\* prefix: the texts one of which it requires just before the field ({} when it
\* requires none); lookbehind: the texts it forbids there; k: "link" for the
\* markdown pattern, "ref" for the wiki pattern.
ContentMatch(content, fields, prefix, lookbehind, k) ==
    LET hits == {i \in 1..(Len(content) - 1) :
                    /\ IsTxt(content[i], fields)
                    /\ prefix = {} \/ (i > 1 /\ IsTxt(content[i - 1], prefix))
                    /\ ~(i > 1 /\ IsTxt(content[i - 1], lookbehind))
                    /\ content[i + 1].k = k}
    IN IF hits = {} THEN None
       ELSE S(strip(content[(CHOOSE i \in hits : \A j \in hits : i <= j) + 1].v))

\* the first attempt that is not None
FirstMatch(attempts) ==
    LET hits == {i \in 1..Len(attempts) : attempts[i] # None}
    IN IF hits = {} THEN None
       ELSE attempts[CHOOSE i \in hits : \A j \in hits : i <= j]

\* lines 87-108
extract_claimed_by_from_content(content) ==
    IF content = << >> THEN None
    ELSE FirstMatch(<<ContentMatch(content, {"Claimed By::"}, {}, {}, "link"),
                      ContentMatch(content, {"Claimed By::"}, {}, {}, "ref")>>)

\* lines 111-132
extract_issue_created_by_from_content(content) ==
    IF content = << >> THEN None
    ELSE FirstMatch(<<ContentMatch(content, {"Created By::"}, {"Issue "}, {}, "link"),
                      ContentMatch(content, {"Created By::"}, {"Issue "}, {}, "ref")>>)

\* lines 135-174: Made by, then Creator, then Created by not after 'Issue '
extract_made_by_from_content(content) ==
    IF content = << >> THEN None
    ELSE FirstMatch(<<ContentMatch(content, {"Made By::", "Made by::"}, {}, {}, "link"),
                      ContentMatch(content, {"Made By::", "Made by::"}, {}, {}, "ref"),
                      ContentMatch(content, {"Creator::"}, {}, {}, "link"),
                      ContentMatch(content, {"Creator::"}, {}, {}, "ref"),
                      ContentMatch(content, {"Created By::", "Created by::"}, {},
                                   {"Issue ", "issue "}, "link"),
                      ContentMatch(content, {"Created By::", "Created by::"}, {},
                                   {"Issue ", "issue "}, "ref")>>)

\* lines 177-201
extract_author_from_content(content) ==
    IF content = << >> THEN None
    ELSE FirstMatch(<<ContentMatch(content, {"Author::"}, {}, {}, "link"),
                      ContentMatch(content, {"Author::"}, {}, {}, "ref")>>)

\* lines 204-213: the rest of the line after 'Status::' is one run of text
extract_status_from_content(content) ==
    IF content = << >> THEN None
    ELSE ContentMatch(content, {"Status::"}, {}, {}, "txt")

\* re.search(r'\[\[XXX\]\]', title) and '[[XXX]]' in title
HasMarker(title, marker) == \E i \in 1..Len(title) : title[i] = marker

\* the markers of lines 45-53 and 230-243, in the order the code tests them
NodeTypes == <<"ISS", "RES", "CLM", "HYP", "CON", "EVD", "QUE">>

MarkerOf(node_type) ==
    CASE node_type = "ISS" -> "[[ISS]]"
      [] node_type = "RES" -> "[[RES]]"
      [] node_type = "CLM" -> "[[CLM]]"
      [] node_type = "HYP" -> "[[HYP]]"
      [] node_type = "CON" -> "[[CON]]"
      [] node_type = "EVD" -> "[[EVD]]"
      [] node_type = "QUE" -> "[[QUE]]"

\* lines 226-243: the if/elif chain
node_type_of(title) ==
    IF StartsWithAt(title) THEN S("experiment")
    ELSE LET hits == {i \in 1..Len(NodeTypes) : HasMarker(title, MarkerOf(NodeTypes[i]))}
         IN IF hits = {} THEN None
            ELSE S(NodeTypes[CHOOSE i \in hits : \A j \in hits : i <= j])

\* lines 246-247
uid_of(node_id) == StripPages(node_id)

\* lines 216-262
extract_node_metadata(node) ==
    [uid              |-> uid_of(Get(node, "@id", S("")).s),
     title            |-> Get(node, "title", << >>),
     creator          |-> Get(node, "creator", None),
     created          |-> Get(node, "created", None),
     modified         |-> Get(node, "modified", None),
     claimed_by       |-> extract_claimed_by_from_content(Get(node, "content", << >>)),
     issue_created_by |-> extract_issue_created_by_from_content(Get(node, "content", << >>)),
     made_by          |-> extract_made_by_from_content(Get(node, "content", << >>)),
     author           |-> extract_author_from_content(Get(node, "content", << >>)),
     status           |-> extract_status_from_content(Get(node, "content", << >>)),
     node_type        |-> node_type_of(Get(node, "title", << >>)),
     content          |-> Get(node, "content", << >>)]

\* [a-zA-Z]+ on the runs the model uses
IsLetters(run) == run \in {"analysis", "Analysis", "TC"}

\* lines 69-84: re.match(r'^@[a-zA-Z]+/', title)
find_experiment_pages(nodes) ==
    LET Matches(node) ==
            LET title == Get(node, "title", << >>)
            IN /\ Len(title) >= 3
               /\ title[1] = "@" /\ IsLetters(title[2]) /\ title[3] = "/"
    IN SelectSeq(nodes, Matches)

\* lines 30-66
extract_nodes_by_type(nodes, node_type) ==
    LET Matches(node) == HasMarker(Get(node, "title", << >>), MarkerOf(node_type))
    IN SelectSeq(nodes, Matches)

\* lines 280-291
get_relation_instances(nodes) ==
    LET IsInstance(node) == Get(node, "@type", None) = S("relationInstance")
        instances == SelectSeq(nodes, IsInstance)
    IN [i \in 1..Len(instances) |->
           [id          |-> Get(instances[i], "@id", None),
            source      |-> Get(instances[i], "source", None),
            destination |-> Get(instances[i], "destination", None),
            predicate   |-> Get(instances[i], "predicate", None)]]

\* lines 265-277
get_relation_definitions(nodes) ==
    LET IsDef(node) == Get(node, "@type", None) = S("relationDef")
        defs == SelectSeq(nodes, IsDef)
    IN [i \in 1..Len(defs) |->
           [id |-> Get(defs[i], "@id", None), label |-> Get(defs[i], "label", None),
            domain |-> Get(defs[i], "domain", None), range |-> Get(defs[i], "range", None),
            inverse_of |-> Get(defs[i], "inverseOf", None)]]

\* lines 344-347
content_nodes_of(nodes) ==
    LET IsContent(node) ==
            Get(node, "@type", None)
                \notin {S("nodeSchema"), S("relationDef"), S("relationInstance")}
    IN SelectSeq(nodes, IsContent)

\* the metadata of each node of a list
MetadataOf(nodes) == [i \in 1..Len(nodes) |-> extract_node_metadata(nodes[i])]

\* lines 329-385
analyze_graph(nodes) ==
    [experiment_pages    |-> MetadataOf(find_experiment_pages(content_nodes_of(nodes))),
     iss_nodes           |-> MetadataOf(extract_nodes_by_type(content_nodes_of(nodes), "ISS")),
     res_nodes           |-> MetadataOf(extract_nodes_by_type(content_nodes_of(nodes), "RES")),
     all_nodes_by_type   |->
         [t \in Range(NodeTypes) |-> MetadataOf(extract_nodes_by_type(content_nodes_of(nodes), t))],
     relations           |-> get_relation_definitions(nodes),
     relation_instances  |-> get_relation_instances(nodes),
     total_content_nodes |-> Len(content_nodes_of(nodes))]

\* parse_roam_json.py line 398: the default of min_match_rate, in percent
DefaultMinMatchRate == 50

\* A variant of line 447 that passes only above the threshold
validation_result_StrictlyAbove(pages, jd, min_match_rate) ==
    LET jsonld_exp_titles == {jd.experiment_pages[i].title : i \in 1..Len(jd.experiment_pages)}
        jsonld_iss_titles == {jd.iss_nodes[i].title : i \in 1..Len(jd.iss_nodes)}
        roam_exp_titles == {pages[i].title : i \in {j \in 1..Len(pages) : StartsWithAt(pages[j].title)}}
        roam_iss_titles == {pages[i].title : i \in {j \in 1..Len(pages) : ContainsISS(pages[j].title)}}
        total_matched == Cardinality(jsonld_exp_titles \cap roam_exp_titles)
                         + Cardinality(jsonld_iss_titles \cap roam_iss_titles)
        total_jsonld == Cardinality(jsonld_exp_titles) + Cardinality(jsonld_iss_titles)
    IN [match_rate |-> IF total_jsonld > 0 THEN Round(total_matched, total_jsonld, 1000) ELSE 0,
        passed     |-> IF total_jsonld > 0
                       THEN 100 * total_matched > min_match_rate * total_jsonld
                       ELSE 0 > min_match_rate]

\* parse_roam_json.py lines 418-448: the result dict of the title-overlap
\* validator; min_match_rate in percent, match_rate in thousandths
validation_result(pages, jd, min_match_rate) ==
    LET jsonld_exp_titles == {jd.experiment_pages[i].title : i \in 1..Len(jd.experiment_pages)}
        jsonld_iss_titles == {jd.iss_nodes[i].title : i \in 1..Len(jd.iss_nodes)}
        roam_exp_titles == {pages[i].title : i \in {j \in 1..Len(pages) : StartsWithAt(pages[j].title)}}
        roam_iss_titles == {pages[i].title : i \in {j \in 1..Len(pages) : ContainsISS(pages[j].title)}}
        exp_matched == Cardinality(jsonld_exp_titles \cap roam_exp_titles)
        iss_matched == Cardinality(jsonld_iss_titles \cap roam_iss_titles)
        total_jsonld == Cardinality(jsonld_exp_titles) + Cardinality(jsonld_iss_titles)
    IN [total_roam_pages        |-> Len(pages),
        jsonld_experiment_pages |-> Cardinality(jsonld_exp_titles),
        roam_experiment_pages   |-> Cardinality(roam_exp_titles),
        experiment_matches      |-> exp_matched,
        jsonld_iss_nodes        |-> Cardinality(jsonld_iss_titles),
        roam_iss_nodes          |-> Cardinality(roam_iss_titles),
        iss_matches             |-> iss_matched,
        match_rate              |-> IF total_jsonld > 0
                                    THEN Round(exp_matched + iss_matched, total_jsonld, 1000)
                                    ELSE 0,
        passed                  |-> IF total_jsonld > 0
                                    THEN 100 * (exp_matched + iss_matched)
                                            >= min_match_rate * total_jsonld
                                    ELSE 0 >= min_match_rate]

\* parse_roam_json.py lines 398-461: the result, or the ValueError of line 450
validate_roam_export(pages, jd, min_match_rate) ==
    IF validation_result(pages, jd, min_match_rate).passed
    THEN validation_result(pages, jd, min_match_rate)
    ELSE [raised |-> "ValueError"]

----------------------------------------------------------------------------
(* experiment_lifecycle_visualizations.kaplan_meier.  An entry of event_list *)
(* is [t, event]; a survival probability is the fraction [num, den].         *)

Frac(num, den) == [num |-> num, den |-> den]

\* A variant of line 942 that takes only the events out of the risk set
n_at_risk_after_EventsOnly(n_at_risk, d_i, c_i) == n_at_risk - d_i

\* line 942: n_at_risk -= (d_i + c_i)
n_at_risk_after(n_at_risk, d_i, c_i) == n_at_risk - (d_i + c_i)

\* line 919: sorted(event_list, key=lambda x: x[0]), as the ascending sequence
\* of its distinct times
RECURSIVE DistinctTimes(_)
DistinctTimes(ts) ==
    IF ts = {} THEN << >>
    ELSE LET t == CHOOSE x \in ts : \A y \in ts : x <= y
         IN <<t>> \o DistinctTimes(ts \ {t})

\* lines 925-944: the outer loop, times_left being the distinct times not yet
\* visited
RECURSIVE KMLoop(_, _, _, _, _)
KMLoop(times_left, events, n_at_risk, times, surv) ==
    IF times_left = << >> \/ n_at_risk <= 0 THEN [times |-> times, surv |-> surv]
    ELSE LET t_i == Head(times_left)
             d_i == Cardinality({i \in 1..Len(events) : events[i].t = t_i /\ events[i].event})
             c_i == Cardinality({i \in 1..Len(events) : events[i].t = t_i /\ ~events[i].event})
             last == surv[Len(surv)]
         IN KMLoop(Tail(times_left), events, n_at_risk_after(n_at_risk, d_i, c_i),
                   IF d_i > 0 THEN Append(times, t_i) ELSE times,
                   IF d_i > 0
                   THEN Append(surv, Frac(last.num * (n_at_risk - d_i), last.den * n_at_risk))
                   ELSE surv)

\* lines 915-946
kaplan_meier(events) ==
    IF events = << >> THEN [times |-> << >>, surv |-> << >>]
    ELSE KMLoop(DistinctTimes({events[i].t : i \in 1..Len(events)}), events, Len(events),
                <<0>>, <<Frac(1, 1)>>)

----------------------------------------------------------------------------
(* Bounded inputs *)

\* create-time values run over 0..MaxTime ticks (0: absent); 
MaxTime == 3

A == S("A")
B == S("B")

ExpTitle == <<"@", "analysis", "/", "Short">>
IssTitle == <<"[[ISS]]", " - ", "Short">>

Block(string, ct, children) ==
    [string |-> string, create_time |-> ct, children |-> children]

Page(title, ct, children) ==
    [title |-> title, create_time |-> ct, children |-> children]

\* Optional blocks: each set holds short sequences of blocks and, for "no such
\* block", << >>
ValidClaim(t) == Block(<<Txt("Claimed By::"), Ref("A")>>, t, << >>)

ClaimBlocks(times) ==
    {<< >>}
    \cup {<<ValidClaim(t)>> : t \in times}
    \cup {<<Block(<<Txt("Notes")>>, 1, <<ValidClaim(t)>>)>> : t \in times \ {0}}
    \cup {<<Block(<<Txt("claimed by::"), Ref("A")>>, t, << >>)>> : t \in times \ {0}}
    \cup {<<Block(<<Txt("Claimed By::"), Link("A")>>, t, << >>), ValidClaim(t)>> :
             t \in times \ {0}}

IssueCreatedByBlocks ==
    {<< >>, <<Block(<<Txt("Issue "), Txt("Created By::"), Ref("B")>>, 2, << >>)>>}

MadeByBlocks == {<< >>, <<Block(<<Txt("Made by::"), Ref("B")>>, 2, << >>)>>}

AuthorBlocks == {<< >>, <<Block(<<Txt("Author::"), Ref("A")>>, 2, << >>)>>}

DateRef == Ref("May 1st, 2024")
YearRef == Ref("Plan 2024")

LogBlocks(headTimes, entryTimes, refs) ==
    {<< >>}
    \cup {<<Block(<<Txt("Experimental Log")>>, h, <<Block(<<r>>, t, << >>)>>)>> :
             h \in headTimes, t \in entryTimes, r \in refs}

\* Pages that vary which fields are declared, at fixed times
AttributionPages(title) ==
    {Page(title, 2, c \o i \o m \o a \o l) :
        c \in ClaimBlocks({0, 2}), i \in IssueCreatedByBlocks, m \in MadeByBlocks,
        a \in AuthorBlocks, l \in LogBlocks({2}, {2}, {DateRef, YearRef})}

\* Pages that hold an Issue Created By:: block, a Created by:: block, or both in
\* either order, at the top level or nested
CreatedByPages(title) ==
    LET icb == Block(<<Txt("Issue "), Txt("Created By::"), Ref("B")>>, 2, << >>)
        cb == Block(<<Txt("Created by::"), Ref("A")>>, 3, << >>)
    IN {Page(title, 2, <<icb>>), Page(title, 2, <<cb>>),
        Page(title, 2, <<icb, cb>>), Page(title, 2, <<cb, icb>>),
        Page(title, 2, <<Block(<<Txt("Notes")>>, 1, <<icb>>), cb>>),
        Page(title, 2, <<Block(<<Txt("Notes")>>, 1, <<cb>>), icb>>)}

\* Pages that vary the times of the page, the claim block and the log
TimedPages(title) ==
    {Page(title, p, c \o l) :
        p \in 0..MaxTime,
        c \in {<< >>} \cup {<<ValidClaim(t)>> : t \in 0..MaxTime},
        l \in LogBlocks({MaxTime}, 0..MaxTime, {DateRef})}

\* Values of mixed kinds are listed in sequences and drawn by index.
\* ISO strings for 'created': absent, empty, malformed, and each time with each zone
Suffixes == <<"", "Z", "+02:00", "-05:00">>

CreatedStrings ==
    <<None, S(""), Malformed>>
    \o [n \in 1..(4 * MaxTime) |->
           IsoString(12 * (((n - 1) \div 4) + 1), Suffixes[((n - 1) % 4) + 1])]

Node(uid, title, creator, created, claimed_by, issue_created_by, made_by, author) ==
    [uid |-> uid, title |-> title, creator |-> creator, created |-> created,
     claimed_by |-> claimed_by, issue_created_by |-> issue_created_by,
     made_by |-> made_by, author |-> author]

\* a semantic-export experiment that varies the attribution fields: f gives the
\* index of each field's value
AttributionExp(f) ==
    Node("e1", ExpTitle, <<None, S(""), A>>[f[1]], IsoString(24, "Z"),
         <<None, S(""), B>>[f[2]], <<None, A, B>>[f[3]],
         <<None, S(""), A>>[f[4]], <<None, B>>[f[5]])

AttributionChoices == (1..3) \X (1..3) \X (1..3) \X (1..3) \X (1..2)

TimedExp(c) == Node("e1", ExpTitle, A, CreatedStrings[c], None, None, None, None)

IssNode(c, cr, mb) ==
    Node("i1", IssTitle, <<None, B>>[cr], CreatedStrings[c], None, None,
         <<None, A>>[mb], None)

IssPages ==
    {Page(IssTitle, p, m \o l) :
        p \in 0..MaxTime, m \in MadeByBlocks, l \in LogBlocks({2}, {2}, {DateRef})}

JsonldData(exps, isss, ress, rels) ==
    [experiment_pages |-> exps, iss_nodes |-> isss, res_nodes |-> ress,
     relation_instances |-> rels]

----------------------------------------------------------------------------
(* Populations for the metric functions *)

LongTitle == <<"@", "Analysis", "/", "Long description of the work">>
\* a title with an '@' in its description
AtTitle == <<"@", "Analysis", "/", "Long description of the work", "@", "home">>
IssTitle2 == <<"[[ISS]]", " - ", "Long description of the work">>

\* the block-tree page of an experiment, by kind: 1 none, 2 an explicit claim
\* by A, 3 an experimental log with one entry
PageOfKind(title, kind) ==
    CASE kind = 1 -> << >>
      [] kind = 2 -> <<Page(title, 2, <<ValidClaim(2)>>)>>
      [] kind = 3 -> <<Page(title, 2,
                            <<Block(<<Txt("Experimental Log")>>, 2,
                                    <<Block(<<DateRef>>, 3, << >>)>>)>>)>>

\* the first experiment varies creator, claimed_by, issue_created_by and page
FirstExpChoices == (1..2) \X (1..3) \X (1..4) \X (1..3)

FirstExp(f) ==
    Node("e1", ExpTitle, <<None, A>>[f[1]], IsoString(24, "Z"),
         <<None, S(""), B>>[f[2]], <<None, S(""), A, B>>[f[3]], None, None)

\* the second varies claimed_by, issue_created_by and page
SecondExpChoices == (1..2) \X (1..2) \X (1..2)

SecondExp(f) ==
    Node("e2", LongTitle, A, IsoString(12, ""), <<None, B>>[f[1]], <<None, A>>[f[2]],
         None, None)

\* an issue, with or without an experimental log on its page
IssOf(uid, title) == Node(uid, title, B, IsoString(24, "Z"), None, None, None, None)

IssPopulations ==
    {[nodes |-> << >>, pages |-> << >>]}
    \cup {[nodes |-> <<IssOf("i1", IssTitle)>>, pages |-> PageOfKind(IssTitle, k)] :
             k \in {1, 3}}
    \cup {[nodes |-> <<IssOf("i1", IssTitle), IssOf("i2", IssTitle2)>>,
           pages |-> PageOfKind(IssTitle, k) \o PageOfKind(IssTitle2, h)] :
             k \in {1, 3}, h \in {1, 3}}

\* Results: uid, title (1 a back-reference to the experiment title, 2 the short
\* name in the text, 3 unrelated, 4 the experiment title's text after '@type/'
\* as it is written) and created (1 absent, or an instant)
ResTitle(exp_title, kind) ==
    CASE kind = 1 -> <<"[[RES]]", " - ", "Finding", " - ", "[[">> \o exp_title \o <<"]]">>
      [] kind = 2 -> <<"[[RES]]", " - ", "Finding", " - ">> \o exp_short_name_of(exp_title)
      [] kind = 3 -> <<"[[RES]]", " - ", "Unrelated">>
      [] kind = 4 -> <<"[[RES]]", " - ", "Finding", " - ">> \o SubSeq(exp_title, 4, Len(exp_title))

ResNode(uid, exp_title, kind, c) ==
    Node(uid, ResTitle(exp_title, kind), IF uid = "r1" THEN A ELSE B,
         <<None, IsoString(24, "Z"), IsoString(48, "Z")>>[c], None, None, None, None)

ResChoices(kinds, cs) == {"r1", "r2"} \X kinds \X cs

ResLists(exp_title, kinds, cs) ==
    {<< >>}
    \cup {<<ResNode(r[1], exp_title, r[2], r[3])>> : r \in ResChoices(kinds, cs)}
    \cup {<<ResNode(r[1], exp_title, r[2], r[3]), ResNode(q[1], exp_title, q[2], q[3])>> :
             r \in ResChoices(kinds, cs), q \in ResChoices(kinds, cs)}

Rel(source, destination) == [source |-> S(source), destination |-> S(destination)]

RelationLists ==
    {<< >>,
     <<Rel("pages:e1", "pages:r1")>>,
     <<Rel("pages:r2", "pages:e1")>>,
     <<Rel("pages:e1", "pages:r1"), Rel("pages:e1", "pages:r2")>>}

\* an experiment claimed in the semantic export, under either title
LinkedExp(title) == Node("e1", title, A, IsoString(24, "Z"), B, None, None, None)

\* Experiments whose page times vary. The page of kind k: 0 none; 1..MaxTime an
\* explicit claim by A made at tick k; above MaxTime an experimental log whose
\* one entry was written at tick k - MaxTime
TimedPage(title, k) ==
    IF k = 0 THEN << >>
    ELSE IF k <= MaxTime THEN <<Page(title, MaxTime, <<ValidClaim(k)>>)>>
    ELSE <<Page(title, MaxTime,
                <<Block(<<Txt("Experimental Log")>>, MaxTime,
                        <<Block(<<DateRef>>, k - MaxTime, << >>)>>)>>)>>

TimedNode(uid, title, c) ==
    Node(uid, title, A, <<IsoString(12, ""), IsoString(36, "Z")>>[c], None, None, None, None)

\* the second experiment: n = 0 for none, else its created string and page kind
SecondTimed(n) ==
    IF n = 0 THEN [nodes |-> << >>, pages |-> << >>]
    ELSE [nodes |-> <<TimedNode("e2", LongTitle, ((n - 1) % 2) + 1)>>,
          pages |-> TimedPage(LongTitle, (n - 1) \div 2)]

\* an experiment that is not claimed in the semantic export, with or without
\* a creator
UnclaimedExp(cr) ==
    Node("e1", ExpTitle, <<None, A>>[cr], IsoString(24, "Z"), None, None, None, None)

\* the experiment beside it: none, one claimed in the semantic export, or one
\* with an experimental log whose issue was created by another person
BesideUnclaimed ==
    {[nodes |-> << >>, pages |-> << >>],
     [nodes |-> <<SecondExp(<<2, 1, 1>>)>>, pages |-> << >>],
     [nodes |-> <<Node("e2", LongTitle, A, IsoString(12, ""), None, B, None, None)>>,
      pages |-> PageOfKind(LongTitle, 3)]}

\* two pages of one issue title in the block-tree export
TwoIssPages ==
    <<Page(IssTitle, 1, <<Block(<<Txt("Made by::"), Ref("B")>>, 2, << >>)>>),
      Page(IssTitle, 2, << >>)>>

\* the Results that refer to the first experiment
TimedResults ==
    {<< >>,
     <<ResNode("r1", ExpTitle, 1, 2)>>,
     <<ResNode("r1", ExpTitle, 1, 3)>>,
     <<ResNode("r1", ExpTitle, 1, 3), ResNode("r2", ExpTitle, 1, 2)>>}

\* Raw nodes of '@graph'
RawNode(id, title, content, creator, created) ==
    ("@id" :> S(id))
    @@ [title |-> title, content |-> content, creator |-> creator, created |-> created]

\* a node that carries no title
UntitledNode(id) == ("@id" :> S(id)) @@ [content |-> << >>, creator |-> B]

SchemaNode == ("@id" :> S("pages:s1")) @@ ("@type" :> S("nodeSchema")) @@ [label |-> S("Issue")]

\* a relation instance; None for a field the node does not carry
RelationInstanceNode(source, destination) ==
    ("@id" :> S("pages:x1")) @@ ("@type" :> S("relationInstance"))
    @@ (IF source = None THEN << >> ELSE [source |-> source])
    @@ (IF destination = None THEN << >> ELSE [destination |-> destination])
    @@ [predicate |-> S("pages:p1")]

\* the content of the experiment node
Contents ==
    <<<< >>,
      <<Txt("Claimed By::"), Link("B"), Txt("Issue "), Txt("Created By::"), Ref("A")>>,
      <<Txt("Claimed By::"), Ref(" ")>>,
      <<Txt("Status::"), Txt("Done"), Txt("Made by::"), Ref("A")>>,
      <<Txt("Issue "), Txt("Created By::"), Ref("A")>>>>

\* titles that carry more than one marker
IssResTitle == <<"[[ISS]]", " - ", "[[RES]]", " - ", "Finding">>
ExpResTitle == <<"@", "analysis", "/", "[[RES]]", " - ", "Finding">>

\* the node that follows the experiment, if any
ExtraNodes ==
    <<<< >>,
      <<RawNode("pages:i1", IssTitle, << >>, B, IsoString(24, "Z"))>>,
      <<RawNode("pages:i1", IssResTitle, << >>, B, IsoString(24, "Z"))>>,
      <<RawNode("pages:n1", ExpResTitle, << >>, B, IsoString(24, "Z"))>>,
      <<UntitledNode("pages:n1")>>>>

\* the relation instance of the graph, if any
RelationNodes ==
    <<<< >>,
      <<RelationInstanceNode(S("pages:e1"), S("pages:r1"))>>,
      <<RelationInstanceNode(None, S("pages:r1"))>>,
      <<RelationInstanceNode(S("pages:e1"), None)>>>>

\* the Result of the graph, if any
ResultNodes ==
    <<<< >>,
      <<RawNode("pages:r1", ResTitle(ExpTitle, 1), << >>, A, IsoString(48, "Z"))>>>>

Graph(c, d, r, x, n) ==
    <<SchemaNode,
      RawNode("pages:e1", ExpTitle, Contents[c], A, <<IsoString(24, "Z"), Malformed>>[d])>>
    \o ResultNodes[r] \o ExtraNodes[x] \o RelationNodes[n]

\* a relation instance parsed from a node without 'source'
UnsourcedRelation == <<[source |-> None, destination |-> S("pages:r1")]>>

\* Titles for the validator: which experiments and issues each export holds
ValidatorExpTitles == {ExpTitle, LongTitle}
ValidatorIssTitles == {IssTitle, IssTitle2}

\* the members of a set of titles in a fixed order, as semantic-export nodes
\* (kind 1) or as block-tree pages (kind 2)
RECURSIVE TitleList(_, _)
TitleList(titles, kind) ==
    IF titles = {} THEN << >>
    ELSE LET t == CHOOSE x \in titles : \A y \in titles : StrLen(x) <= StrLen(y)
         IN <<IF kind = 1 THEN Node("n", t, A, None, None, None, None, None)
              ELSE Page(t, 1, << >>)>>
            \o TitleList(titles \ {t}, kind)

\* thresholds a caller passes, in percent
MinMatchRates == {0, DefaultMinMatchRate, 100}

\* Subjects of a survival curve: at most MaxSubjects, each an event or a
\* censoring on one of the days 1..MaxDay
MaxSubjects == 5
MaxDay == 2

EventLists ==
    UNION {[1..n -> [t : 1..MaxDay, event : BOOLEAN]] : n \in 0..MaxSubjects}

\* the orders a hash seed can give: of the uid strings and of the person strings
HashOrders ==
    {[uids |-> u, persons |-> p] :
        u \in {<<"r1", "r2">>, <<"r2", "r1">>}, p \in {<<A, B>>, <<B, A>>}}

\* datetime.now() falls on one of MaxClock instants
MaxClock == 2

\* calculate_all_metrics is run at most MaxRuns times on the same files
MaxRuns == 2

----------------------------------------------------------------------------
(* calculate_all_metrics, lines 681-747 *)

InitRest ==
    /\ pc = "analyze_exp"
    /\ files = [jsonld |-> TRUE, roam |-> TRUE]
    /\ validation = << >>
    /\ event_list = << >>
    /\ km = << >>
    /\ funnel = << >>
    /\ graph = << >>
    /\ evidence = << >>
    /\ roam_exp_data = << >>
    /\ roam_iss_data = << >>
    /\ experiments = << >>
    /\ iss_nodes = << >>
    /\ metrics = << >>
    /\ hash_order = << >>
    /\ linked_lists = << >>
    /\ returned = << >>

\* single records that vary every field the merger reads
Init ==
    /\ \/ \E f \in AttributionChoices,
                p \in {<< >>} \cup {<<q>> : q \in AttributionPages(ExpTitle)} :
             /\ jsonld_data = JsonldData(<<AttributionExp(f)>>, << >>, << >>, << >>)
             /\ roam_pages = p
       \/ \E c \in 1..Len(CreatedStrings), p \in {<<q>> : q \in TimedPages(ExpTitle)} :
             /\ jsonld_data = JsonldData(<<TimedExp(c)>>, << >>, << >>, << >>)
             /\ roam_pages = p
       \/ \E c \in 1..Len(CreatedStrings), cr \in 1..2, mb \in 1..2,
                p \in {<< >>} \cup {<<q>> : q \in IssPages} :
             /\ jsonld_data = JsonldData(<< >>, <<IssNode(c, cr, mb)>>, << >>, << >>)
             /\ roam_pages = p
       \/ \E p \in CreatedByPages(ExpTitle) :
             /\ jsonld_data = JsonldData(<<AttributionExp(<<1, 1, 1, 1, 1>>)>>, << >>, << >>, << >>)
             /\ roam_pages = <<p>>
    /\ InitRest

\* populations of experiments and issues, and experiments with Results
MetricsInit ==
    /\ \/ \E f \in FirstExpChoices, k \in 0..Cardinality(SecondExpChoices),
                i \in IssPopulations :
             LET g == IF k = 0 THEN <<1, 1, 1>>
                      ELSE CHOOSE g \in SecondExpChoices :
                               k = 4 * (g[1] - 1) + 2 * (g[2] - 1) + g[3]
             IN /\ jsonld_data =
                      JsonldData(<<FirstExp(f)>> \o (IF k = 0 THEN << >> ELSE <<SecondExp(g)>>),
                                 i.nodes, << >>, << >>)
                /\ roam_pages = PageOfKind(ExpTitle, f[4])
                                \o (IF k = 0 THEN << >> ELSE PageOfKind(LongTitle, g[3]))
                                \o i.pages
       \/ \E i \in IssPopulations :
             /\ jsonld_data = JsonldData(<< >>, i.nodes, << >>, << >>)
             /\ roam_pages = i.pages
       \/ \E t \in {ExpTitle, LongTitle}, rs \in RelationLists :
             \E ress \in ResLists(t, 1..3, 1..3) :
                /\ jsonld_data = JsonldData(<<LinkedExp(t)>>, << >>, ress, rs)
                /\ roam_pages = << >>
       \/ \E c \in 1..2, k \in 0..(2 * MaxTime), n \in 0..(2 * (2 * MaxTime + 1)),
                ress \in TimedResults :
             /\ jsonld_data = JsonldData(<<TimedNode("e1", ExpTitle, c)>> \o SecondTimed(n).nodes,
                                         << >>, ress, << >>)
             /\ roam_pages = TimedPage(ExpTitle, k) \o SecondTimed(n).pages
       \/ \E c \in 1..2, k \in 1..(2 * MaxTime), l \in 1..(2 * MaxTime) :
             /\ k # l
             /\ jsonld_data = JsonldData(<<TimedNode("e1", ExpTitle, c)>>,
                                         <<IssOf("i1", IssTitle)>>, << >>, << >>)
             /\ roam_pages = TimedPage(ExpTitle, k) \o TimedPage(ExpTitle, l)
                                \o TwoIssPages
       \/ \E ress \in ResLists(AtTitle, {2, 4}, {2}) :
             /\ jsonld_data = JsonldData(<<LinkedExp(AtTitle)>>, << >>, ress, << >>)
             /\ roam_pages = << >>
       \/ \E cr \in 1..2, kind \in 1..3, g \in BesideUnclaimed :
             \E ress \in ResLists(ExpTitle, {1, 3}, {1, 2}) :
                /\ jsonld_data = JsonldData(<<UnclaimedExp(cr)>> \o g.nodes, << >>, ress, << >>)
                /\ roam_pages = PageOfKind(ExpTitle, kind) \o g.pages
    /\ InitRest

\* experiments with Results that refer to them
DeterminismInit ==
    /\ \E t \in {ExpTitle, LongTitle}, rs \in RelationLists :
          \E ress \in ResLists(t, {1}, 2..3) :
             /\ jsonld_data = JsonldData(<<LinkedExp(t)>>, << >>, ress, rs)
             /\ roam_pages = << >>
    /\ InitRest

\* run_pipeline is entered: each input file exists or not; a graph has one experiment
GraphInit ==
    /\ \E c \in 1..Len(Contents), d \in 1..2, r \in 1..Len(ResultNodes),
          x \in 1..Len(ExtraNodes), n \in 1..Len(RelationNodes), k \in 0..1,
          fj \in BOOLEAN, fr \in BOOLEAN :
          /\ files = [jsonld |-> fj, roam |-> fr]
          /\ graph = IF fj THEN Graph(c, d, r, x, n) ELSE << >>
          /\ roam_pages = IF fr THEN TimedPage(ExpTitle, k) ELSE << >>
    /\ pc = "run_pipeline"
    /\ validation = << >>
    /\ event_list = << >>
    /\ km = << >>
    /\ funnel = << >>
    /\ jsonld_data = << >>
    /\ evidence = << >>
    /\ roam_exp_data = << >>
    /\ roam_iss_data = << >>
    /\ experiments = << >>
    /\ iss_nodes = << >>
    /\ metrics = << >>
    /\ hash_order = << >>
    /\ linked_lists = << >>
    /\ returned = << >>

\* main.py lines 277-283: run_pipeline returns None when an input file is missing
VerifyFilesExist ==
    /\ pc = "run_pipeline"
    /\ pc' = IF files.jsonld /\ files.roam THEN "analyze_graph" ELSE "returned_none"
    /\ UNCHANGED <<files, validation, event_list, km, graph, funnel, evidence, jsonld_data, roam_pages, roam_exp_data, roam_iss_data,
                   experiments, iss_nodes, metrics, hash_order, linked_lists, returned>>

\* line 696
AnalyzeGraph ==
    /\ pc = "analyze_graph"
    /\ jsonld_data' = analyze_graph(graph)
    /\ pc' = "analyze_exp"
    /\ UNCHANGED <<files, validation, event_list, km, graph, funnel, evidence, roam_pages, roam_exp_data, roam_iss_data, experiments,
                   iss_nodes, metrics, hash_order, linked_lists, returned>>

AnalyzeAllExperimentPages ==
    /\ pc = "analyze_exp"
    /\ roam_exp_data' = analyze_all_experiment_pages(roam_pages)
    /\ pc' = "analyze_iss"
    /\ UNCHANGED <<files, validation, event_list, km, graph, funnel, evidence, jsonld_data, roam_pages, roam_iss_data, experiments, iss_nodes, metrics,
                   hash_order, linked_lists, returned>>

AnalyzeIssPages ==
    /\ pc = "analyze_iss"
    /\ roam_iss_data' = analyze_iss_pages(roam_pages)
    /\ pc' = "merge_exp"
    /\ UNCHANGED <<files, validation, event_list, km, graph, funnel, evidence, jsonld_data, roam_pages, roam_exp_data, experiments, iss_nodes, metrics,
                   hash_order, linked_lists, returned>>

MergeExperimentData ==
    /\ pc = "merge_exp"
    /\ experiments' = merge_experiment_data(jsonld_data, roam_exp_data)
    /\ pc' = "merge_iss"
    /\ UNCHANGED <<files, validation, event_list, km, graph, funnel, evidence, jsonld_data, roam_pages, roam_exp_data, roam_iss_data, iss_nodes, metrics,
                   hash_order, linked_lists, returned>>

MergeIssData ==
    /\ pc = "merge_iss"
    /\ iss_nodes' = merge_iss_data(jsonld_data, roam_iss_data)
    /\ pc' = "conversion_rate"
    /\ UNCHANGED <<files, validation, event_list, km, graph, funnel, evidence, jsonld_data, roam_pages, roam_exp_data, roam_iss_data, experiments, metrics,
                   hash_order, linked_lists, returned>>

CalculateConversionRate ==
    /\ pc = "conversion_rate"
    /\ metrics' = DictSet(metrics, "conversion_rate",
                          calculate_conversion_rate(experiments, iss_nodes))
    /\ pc' = "time_to_claim"
    /\ UNCHANGED <<files, validation, event_list, km, graph, funnel, evidence, jsonld_data, roam_pages, roam_exp_data, roam_iss_data, experiments,
                   iss_nodes, hash_order, linked_lists, returned>>

CalculateTimeToClaim ==
    /\ pc = "time_to_claim"
    /\ metrics' = DictSet(metrics, "time_to_claim", calculate_time_to_claim(experiments))
    /\ pc' = "time_to_first_result"
    /\ UNCHANGED <<files, validation, event_list, km, graph, funnel, evidence, jsonld_data, roam_pages, roam_exp_data, roam_iss_data, experiments,
                   iss_nodes, hash_order, linked_lists, returned>>

\* The first iteration over a set of str happens here: the order the hash seed
\* of this run gives is any of HashOrders, and stays for the rest of the run.
CalculateTimeToFirstResult ==
    /\ pc = "time_to_first_result"
    /\ IF build_relation_map_raises(jsonld_data.relation_instances)
       THEN /\ pc' = "AttributeError"
            /\ UNCHANGED <<metrics, hash_order, linked_lists>>
       ELSE /\ \E o \in HashOrders :
                  /\ hash_order' = o
                  /\ linked_lists' = LinkAll(experiments, jsonld_data.res_nodes,
                                             jsonld_data.relation_instances, o.uids)
            /\ metrics' = DictSet(metrics, "time_to_first_result",
                                  calculate_time_to_first_result(claimed_of(experiments),
                                                                 linked_lists'))
            /\ pc' = "unique_contributors"
    /\ UNCHANGED <<files, validation, event_list, km, graph, funnel, evidence, jsonld_data, roam_pages, roam_exp_data, roam_iss_data,
                   experiments, iss_nodes, returned>>

CalculateUniqueContributors ==
    /\ pc = "unique_contributors"
    /\ IF build_relation_map_raises(jsonld_data.relation_instances)
       THEN /\ pc' = "AttributeError"
            /\ UNCHANGED <<metrics, linked_lists>>
       ELSE /\ linked_lists' = LinkAll(experiments, jsonld_data.res_nodes,
                                       jsonld_data.relation_instances, hash_order.uids)
            /\ metrics' = DictSet(metrics, "unique_contributors",
                                  calculate_unique_contributors(claimed_of(experiments),
                                                                linked_lists',
                                                                hash_order.persons))
            /\ pc' = "cross_person_claims"
    /\ UNCHANGED <<files, validation, event_list, km, graph, funnel, evidence, jsonld_data, roam_pages, roam_exp_data, roam_iss_data, experiments,
                   iss_nodes, hash_order, returned>>

CalculateCrossPersonClaims ==
    /\ pc = "cross_person_claims"
    /\ metrics' = DictSet(metrics, "cross_person_claims",
                          calculate_cross_person_claims(experiments))
    /\ pc' = "return"
    /\ UNCHANGED <<files, validation, event_list, km, graph, funnel, evidence, jsonld_data, roam_pages, roam_exp_data, roam_iss_data, experiments,
                   iss_nodes, hash_order, linked_lists, returned>>

\* lines 729-747
Return ==
    /\ pc = "return"
    /\ \E now \in 1..MaxClock :
          returned' = Append(returned,
              [generated |-> now,
               summary   |-> [total_experiment_pages |-> Len(experiments),
                              total_iss_nodes        |-> Len(iss_nodes),
                              total_res_nodes        |-> Len(jsonld_data.res_nodes)],
               metrics   |-> metrics])
    /\ pc' = "done"
    /\ UNCHANGED <<files, validation, event_list, km, graph, funnel, evidence, jsonld_data, roam_pages, roam_exp_data, roam_iss_data, experiments,
                   iss_nodes, metrics, hash_order, linked_lists>>

\* calculate_all_metrics is run again, in a new process, on the same files
Rerun ==
    /\ pc = "done"
    /\ Len(returned) < MaxRuns
    /\ pc' = "analyze_exp"
    /\ roam_exp_data' = << >>
    /\ roam_iss_data' = << >>
    /\ experiments' = << >>
    /\ iss_nodes' = << >>
    /\ metrics' = << >>
    /\ hash_order' = << >>
    /\ linked_lists' = << >>
    /\ UNCHANGED <<files, validation, event_list, km, graph, funnel, evidence, jsonld_data, roam_pages, returned>>

\* the state in which calculate_all_metrics reaches its metric calls (line 714),
\* under one hash seed
OrderInit ==
    /\ \/ \E t \in {ExpTitle, LongTitle}, rs \in RelationLists \cup {UnsourcedRelation} :
             \E ress \in ResLists(t, {1}, {2}) :
                /\ jsonld_data = JsonldData(<<LinkedExp(t)>>, << >>, ress, rs)
                /\ roam_pages = << >>
       \/ \E c \in 1..2, k \in 0..(2 * MaxTime), n \in {0, 3},
                ress \in TimedResults :
             /\ jsonld_data = JsonldData(<<TimedNode("e1", ExpTitle, c)>> \o SecondTimed(n).nodes,
                                         <<IssOf("i1", IssTitle)>>, ress, << >>)
             /\ roam_pages = TimedPage(ExpTitle, k) \o SecondTimed(n).pages
    /\ pc = "metrics"
    /\ files = [jsonld |-> TRUE, roam |-> TRUE]
    /\ validation = << >>
    /\ event_list = << >>
    /\ km = << >>
    /\ funnel = << >>
    /\ graph = << >>
    /\ evidence = << >>
    /\ roam_exp_data = analyze_all_experiment_pages(roam_pages)
    /\ roam_iss_data = analyze_iss_pages(roam_pages)
    /\ experiments = merge_experiment_data(jsonld_data, roam_exp_data)
    /\ iss_nodes = merge_iss_data(jsonld_data, roam_iss_data)
    /\ metrics = << >>
    /\ hash_order \in HashOrders
    /\ linked_lists = << >>
    /\ returned = << >>

\* one metric function is called on the merged records, in any order; it
\* leaves in its arguments what it wrote there
CallMetric ==
    /\ pc = "metrics"
    /\ \E name \in MetricNames \ DOMAIN metrics :
          IF name \in LinkingMetrics /\ build_relation_map_raises(jsonld_data.relation_instances)
          THEN /\ pc' = "AttributeError"
               /\ UNCHANGED <<jsonld_data, experiments, iss_nodes, metrics, linked_lists>>
          ELSE LET lists == IF name \in LinkingMetrics
                            THEN LinkAll(experiments, jsonld_data.res_nodes,
                                         jsonld_data.relation_instances, hash_order.uids)
                            ELSE linked_lists
               IN /\ metrics' = DictSet(metrics, name,
                                        MetricOf(name, experiments, iss_nodes, lists, hash_order))
                  /\ linked_lists' = lists
                  /\ experiments' = ApplyWrites(experiments, WritesOf(name, experiments))
                  /\ iss_nodes' = IF name = "conversion_rate"
                                  THEN ApplyWrites(iss_nodes, WritesOf(name, iss_nodes))
                                  ELSE iss_nodes
                  /\ jsonld_data' =
                        IF name \in LinkingMetrics
                        THEN [jsonld_data EXCEPT
                                 !.res_nodes = ApplyWrites(@, WritesOf(name, @)),
                                 !.relation_instances = ApplyWrites(@, WritesOf(name, @))]
                        ELSE jsonld_data
                  /\ pc' = pc
    /\ UNCHANGED <<files, validation, event_list, km, graph, funnel, evidence, roam_pages, roam_exp_data, roam_iss_data, hash_order,
                   returned>>

\* validate_roam_export is called on a pair of exports
ValidateInit ==
    /\ \E je \in SUBSET ValidatorExpTitles, ji \in SUBSET ValidatorIssTitles,
          rp \in SUBSET (ValidatorExpTitles \cup ValidatorIssTitles) :
          /\ jsonld_data = JsonldData(TitleList(je, 1), TitleList(ji, 1), << >>, << >>)
          /\ roam_pages = TitleList(rp, 2)
    /\ pc = "validate"
    /\ files = [jsonld |-> TRUE, roam |-> TRUE]
    /\ validation = << >>
    /\ event_list = << >>
    /\ km = << >>
    /\ funnel = << >>
    /\ graph = << >>
    /\ evidence = << >>
    /\ roam_exp_data = << >>
    /\ roam_iss_data = << >>
    /\ experiments = << >>
    /\ iss_nodes = << >>
    /\ metrics = << >>
    /\ hash_order = << >>
    /\ linked_lists = << >>
    /\ returned = << >>

ValidateRoamExport ==
    /\ pc = "validate"
    /\ \E min_match_rate \in MinMatchRates :
          /\ validation' = [min_match_rate |-> min_match_rate,
                            outcome |-> validate_roam_export(roam_pages, jsonld_data,
                                                             min_match_rate)]
          /\ pc' = IF "raised" \in DOMAIN validation'.outcome
                   THEN validation'.outcome.raised ELSE "validated"
    /\ UNCHANGED <<files, event_list, km, graph, funnel, evidence, jsonld_data, roam_pages, roam_exp_data, roam_iss_data,
                   experiments, iss_nodes, metrics, hash_order, linked_lists, returned>>

\* kaplan_meier is called on a list of subjects
KaplanMeierInit ==
    /\ event_list \in EventLists
    /\ km = << >>
    /\ funnel = << >>
    /\ pc = "kaplan_meier"
    /\ files = [jsonld |-> TRUE, roam |-> TRUE]
    /\ validation = << >>
    /\ graph = << >>
    /\ evidence = << >>
    /\ jsonld_data = << >>
    /\ roam_pages = << >>
    /\ roam_exp_data = << >>
    /\ roam_iss_data = << >>
    /\ experiments = << >>
    /\ iss_nodes = << >>
    /\ metrics = << >>
    /\ hash_order = << >>
    /\ linked_lists = << >>
    /\ returned = << >>

KaplanMeier ==
    /\ pc = "kaplan_meier"
    /\ km' = kaplan_meier(event_list)
    /\ pc' = "plotted"
    /\ UNCHANGED <<files, validation, event_list, graph, funnel, evidence, jsonld_data, roam_pages,
                   roam_exp_data, roam_iss_data, experiments, iss_nodes, metrics, hash_order,
                   linked_lists, returned>>

\* create_evd5_bundle line 61
WriteFunnelSummary ==
    /\ pc = "done"
    /\ pc' = "funnel_written"
    /\ funnel' = funnel_summary(metrics.conversion_rate, metrics.time_to_first_result,
                                metrics.cross_person_claims)
    /\ UNCHANGED <<files, validation, event_list, km, graph, evidence, jsonld_data, roam_pages,
                   roam_exp_data, roam_iss_data, experiments, iss_nodes, metrics,
                   hash_order, linked_lists, returned>>

\* create_evd5_bundle line 69: evidence.jsonld is written from the returned
\* metrics; an exception in it ends the run
WriteEvidenceJsonld ==
    /\ pc = "funnel_written"
    /\ LET written == summaryMetrics(metrics.conversion_rate, metrics.time_to_first_result)
       IN IF "raised" \in DOMAIN written.claiming_to_result_percent
          THEN /\ pc' = written.claiming_to_result_percent.raised
               /\ evidence' = evidence
          ELSE /\ pc' = "bundle_written"
               /\ evidence' = written
    /\ UNCHANGED <<files, validation, event_list, km, graph, funnel, jsonld_data, roam_pages, roam_exp_data, roam_iss_data, experiments,
                   iss_nodes, metrics, hash_order, linked_lists, returned>>

\* lines 695-706: reading the two exports and merging
Next ==
    \/ AnalyzeAllExperimentPages
    \/ AnalyzeIssPages
    \/ MergeExperimentData
    \/ MergeIssData

\* lines 695-747: one run
MetricsNext ==
    \/ Next
    \/ CalculateConversionRate
    \/ CalculateTimeToClaim
    \/ CalculateTimeToFirstResult
    \/ CalculateUniqueContributors
    \/ CalculateCrossPersonClaims
    \/ Return

DeterminismNext ==
    \/ MetricsNext
    \/ Rerun

\* one run followed by the evidence bundle
BundleNext ==
    \/ MetricsNext
    \/ WriteFunnelSummary
    \/ WriteEvidenceJsonld

\* run_pipeline up to the return of calculate_all_metrics
GraphNext ==
    \/ VerifyFilesExist
    \/ AnalyzeGraph
    \/ MetricsNext

Spec == Init /\ [][Next]_vars

MetricsSpec == MetricsInit /\ [][MetricsNext]_vars

DeterminismSpec == DeterminismInit /\ [][DeterminismNext]_vars

BundleSpec == MetricsInit /\ [][BundleNext]_vars

GraphSpec == GraphInit /\ [][GraphNext]_vars

OrderSpec == OrderInit /\ [][CallMetric]_vars

ValidateSpec == ValidateInit /\ [][ValidateRoamExport]_vars

KaplanMeierSpec == KaplanMeierInit /\ [][KaplanMeier]_vars

----------------------------------------------------------------------------
(* Properties of the merged records *)

\* The block-tree facts merge_experiment_data looks up for merged record e
FactsOf(e) == Get(roam_exp_data, e.title, << >>)

\* The semantic-export node merged record number i came from
SourceOf(i) == jsonld_data.experiment_pages[i]

\* When a field counts as holding a value: as the claims say it (non-null), or
\* as a value that is neither null nor the empty string
Present(v, asStated) == IF asStated THEN v # None ELSE Truthy(v)

\* The priority chain over the fields of a merged record
ChainHolds(e, asStated) ==
    IF Present(e.made_by, asStated)
    THEN e.primary_contributor = e.made_by /\ e.attribution_method = MADE_BY
    ELSE IF Present(e.claimed_by, asStated)
    THEN e.primary_contributor = e.claimed_by /\ e.attribution_method = CLAIMED_BY
    ELSE IF Present(e.author, asStated)
    THEN e.primary_contributor = e.author /\ e.attribution_method = AUTHOR
    ELSE IF Present(e.creator, asStated)
    THEN e.primary_contributor = e.creator /\ e.attribution_method = CREATOR
    ELSE e.primary_contributor = None /\ e.attribution_method = None

\* C1 as stated: primary_contributor follows made_by > claimed_by > author >
\* creator, a field counting whenever it is non-null, and attribution_method
\* names the branch.
C1_AsStated ==
    \A i \in 1..Len(experiments) : ChainHolds(experiments[i], TRUE)

\* C1 amended: primary_contributor follows made_by > claimed_by > author >
\* creator, a field counting whenever it is neither null nor the empty string,
\* and attribution_method names the branch.
C1_PriorityChain ==
    \A i \in 1..Len(experiments) : ChainHolds(experiments[i], FALSE)

\* made_by wins over a different claimed_by
C1_Witness ==
    \E i \in 1..Len(experiments) :
        /\ Truthy(experiments[i].made_by)
        /\ Truthy(experiments[i].claimed_by)
        /\ experiments[i].claimed_by # experiments[i].made_by
        /\ Truthy(experiments[i].creator)
        /\ experiments[i].primary_contributor = experiments[i].made_by

\* The creation instants supplied for merged record number i, in UTC hours
CreatedInstants(i) ==
    LET c == parse_date(SourceOf(i).created)
        f == FactsOf(experiments[i])
        p == Get(f, "page_created", None)
        b == Get(f, "earliest_block_timestamp", None)
    IN (IF c = None THEN {} ELSE {normalize_datetime(c).t})
       \cup (IF p = None THEN {} ELSE {p.t})
       \cup (IF b = None THEN {} ELSE {b.t})

\* C2: page_created of a merged experiment is the minimum of the creation
\* instants supplied for it: at most each of them, one of them, and null only
\* when there is none.
C2_PageCreatedIsMinimum ==
    \A i \in 1..Len(experiments) :
        LET pcd == experiments[i].page_created
        IN IF CreatedInstants(i) = {} THEN pcd = None
           ELSE /\ pcd # None
                /\ pcd.tzinfo = None
                /\ pcd.t \in CreatedInstants(i)
                /\ \A t \in CreatedInstants(i) : pcd.t <= t

\* three different instants are supplied and the earliest block is the minimum
C2_Witness ==
    \E i \in 1..Len(experiments) :
        /\ Cardinality(CreatedInstants(i)) = 3
        /\ SourceOf(i).created # Malformed
        /\ SourceOf(i).created.suffix = "+02:00"
        /\ experiments[i].page_created = FactsOf(experiments[i]).earliest_block_timestamp

\* C3 as stated: page_created of a merged issue is at most the semantic-export
\* created instant and at most the block-tree page-creation instant whenever
\* both are available.
C3_IssPageCreatedIsMinimum ==
    \A i \in 1..Len(iss_nodes) :
        LET c == parse_date(jsonld_data.iss_nodes[i].created)
            p == Get(Get(roam_iss_data, iss_nodes[i].title, << >>), "page_created", None)
        IN (c # None /\ p # None) =>
              /\ iss_nodes[i].page_created # None
              /\ iss_nodes[i].page_created.t <= normalize_datetime(c).t
              /\ iss_nodes[i].page_created.t <= p.t

\* The block-tree page whose facts are recorded under a title: the last
\* experiment page of the export carrying it, or None
PageTitled(title) ==
    LET hits == {k \in 1..Len(roam_pages) : roam_pages[k].title = title}
    IN IF hits = {} \/ ~StartsWithAt(title) THEN None
       ELSE roam_pages[CHOOSE k \in hits : \A j \in hits : j <= k]

\* block carries the literal 'Claimed By::' followed by a [[person]] reference,
\* and a creation time
CarriesClaim(block) ==
    /\ \E j \in 1..(Len(block.string) - 1) :
           block.string[j] = Txt("Claimed By::") /\ block.string[j + 1].k = "ref"
    /\ block.create_time # 0

\* the person reference that follows the first 'Claimed By::' of a block
ClaimPerson(block) ==
    LET j == CHOOSE j \in 1..(Len(block.string) - 1) :
                 /\ block.string[j] = Txt("Claimed By::") /\ block.string[j + 1].k = "ref"
                 /\ \A h \in 1..(j - 1) :
                        ~(block.string[h] = Txt("Claimed By::") /\ block.string[h + 1].k = "ref")
    IN S(block.string[j + 1].v)

\* C9 as stated: claim_type is 'explicit' exactly when the page of the same
\* title holds some Claimed By:: block with a [[person]] reference and a creation
\* timestamp.
C9_AsStated ==
    \A i \in 1..Len(experiments) :
        LET page == PageTitled(experiments[i].title)
        IN experiments[i].claim_type = EXPLICIT
           <=> /\ page # None
               /\ \E k \in 1..Len(Preorder(page.children)) :
                      CarriesClaim(Preorder(page.children)[k])

\* C9 amended: claim_type is 'explicit' exactly when, on the page of the same
\* title, the first block in depth-first order whose text contains
\* 'claimed by::' in any letter case carries the literal 'Claimed By::' followed
\* by a [[person]] reference, and a creation timestamp; claimed_by and
\* claimed_by_timestamp are then that block's person and timestamp whatever the
\* semantic export said, both non-null, and the record is not labelled
\* 'inferred'.
C9_ExplicitClaim ==
    \A i \in 1..Len(experiments) :
        LET e == experiments[i]
            page == PageTitled(e.title)
            bs == IF page = None THEN << >> ELSE Preorder(page.children)
            cands == {k \in 1..Len(bs) :
                         \E j \in 1..Len(bs[k].string) :
                             /\ bs[k].string[j].k = "txt"
                             /\ Lower(bs[k].string[j].v) = "claimed by::"}
            first == CHOOSE k \in cands : \A j \in cands : k <= j
        IN IF cands # {} /\ CarriesClaim(bs[first])
           THEN /\ e.claim_type = EXPLICIT
                /\ e.claimed_by = ClaimPerson(bs[first])
                /\ e.claimed_by_timestamp = Naive(12 * bs[first].create_time)
                /\ e.claimed_by # None /\ e.claimed_by_timestamp # None
           ELSE e.claim_type # EXPLICIT

\* the block-tree person overrides a different semantic-export claimed_by
C9_Witness ==
    \E i \in 1..Len(experiments) :
        /\ experiments[i].claim_type = EXPLICIT
        /\ Truthy(SourceOf(i).claimed_by)
        /\ SourceOf(i).claimed_by # experiments[i].claimed_by
        /\ experiments[i].has_experimental_log
        /\ Truthy(experiments[i].creator)

\* issue_created_by of record number i before inference (lines 69-72)
IssueCreatedByBefore(i) ==
    LET f == FactsOf(experiments[i])
    IN IF Get(f, "issue_created_by", None) # None THEN f.issue_created_by.person
       ELSE SourceOf(i).issue_created_by

\* What C10 says of record number i
InferenceHolds(i, asStated) ==
    LET e == experiments[i]
        exp == SourceOf(i)
        f == FactsOf(e)
        noClaim == ~Present(exp.claimed_by, asStated) /\ Get(f, "claimed_by", None) = None
        cond == /\ noClaim
                /\ Get(f, "has_experimental_log", FALSE)
                /\ Get(f, "log_entry_count", 0) >= 1
                /\ Present(exp.creator, asStated)
    IN IF cond
       THEN /\ e.claimed_by = exp.creator
            /\ e.claimed_by_timestamp = normalize_datetime(f.first_log_entry)
            /\ e.claim_type = INFERRED
            /\ e.issue_created_by = IF Present(IssueCreatedByBefore(i), asStated)
                                    THEN IssueCreatedByBefore(i) ELSE exp.creator
       ELSE /\ e.claim_type # INFERRED
            /\ e.issue_created_by = IssueCreatedByBefore(i)
            /\ noClaim => e.claimed_by = exp.claimed_by

\* C10 as stated: with no claimed_by from either source, an experimental log
\* with at least one entry and a non-null creator, the claim is inferred
\* (claimed_by = creator, claimed_by_timestamp = first_log_entry, claim_type
\* 'inferred', issue_created_by = creator unless set); otherwise nothing is
\* inferred and claimed_by stays null.
C10_AsStated ==
    \A i \in 1..Len(experiments) :
        InferenceHolds(i, TRUE)

\* C10 amended: the same with 'non-null' and 'set' read as 'neither null nor the
\* empty string': an empty creator infers nothing, an empty semantic-export
\* claimed_by or issue_created_by counts as absent, and when nothing is
\* inferred and no source gave a claim, claimed_by stays as the semantic export
\* gave it (null or empty).
C10_InferredClaim ==
    \A i \in 1..Len(experiments) : InferenceHolds(i, FALSE)

\* a claim is inferred and an issue_created_by that was set is left alone
C10_Witness ==
    \E i \in 1..Len(experiments) :
        /\ experiments[i].claim_type = INFERRED
        /\ experiments[i].claimed_by = SourceOf(i).creator
        /\ experiments[i].claimed_by_timestamp # None
        /\ experiments[i].issue_created_by # experiments[i].claimed_by
        /\ experiments[i].issue_created_by = IssueCreatedByBefore(i)

----------------------------------------------------------------------------
(* Properties of the metrics *)

\* C4: calculate_conversion_rate returns 0 <= conversion_rate_percent <= 100
\* (kept in tenths of a percent) and total_claimed + unclaimed_iss = total_issues.
C4_ConversionRateBounds ==
    "conversion_rate" \in DOMAIN metrics =>
        LET c == metrics["conversion_rate"]
        IN /\ 0 <= c.conversion_rate_percent
           /\ c.conversion_rate_percent <= 1000
           /\ c.total_claimed + c.unclaimed_iss = c.total_issues

\* a population of claimed and unclaimed issues whose rate is strictly between
\* the bounds and needed rounding
C4_Witness ==
    /\ "conversion_rate" \in DOMAIN metrics
    /\ metrics["conversion_rate"].total_issues = 3
    /\ metrics["conversion_rate"].total_claimed = 2
    /\ metrics["conversion_rate"].conversion_rate_percent = 667

\* C5: total_claimed equals explicit_claims + inferred_claims +
\* iss_with_activity, every experiment counted as claimed having claim_type
\* 'explicit' or 'inferred'.
C5_ClaimedIsExplicitPlusInferred ==
    "conversion_rate" \in DOMAIN metrics =>
        LET c == metrics["conversion_rate"]
        IN /\ c.total_claimed = c.explicit_claims + c.inferred_claims + c.iss_with_activity
           /\ \A i \in 1..Len(c.claimed_experiment_list) :
                  c.claimed_experiment_list[i].claim_type \in {EXPLICIT, INFERRED}

\* C6: no list returned by _find_linked_res_nodes holds a Result uid twice.
C6_NoDuplicateResult ==
    \A k \in 1..Len(linked_lists) :
        \A i, j \in 1..Len(linked_lists[k]) :
            linked_lists[k][i].uid = linked_lists[k][j].uid => i = j

\* two Results of one uid both carry a back-reference to the experiment (and
\* its short name, long enough for tier 3), and the uid is linked once
C6_Witness ==
    /\ Len(linked_lists) = 1 /\ Len(linked_lists[1]) = 1
    /\ Len(jsonld_data.res_nodes) = 2
    /\ jsonld_data.res_nodes[1].uid = jsonld_data.res_nodes[2].uid
    /\ jsonld_data.relation_instances = << >>
    /\ jsonld_data.experiment_pages[1].title = LongTitle
    /\ \A i \in 1..2 :
          /\ parse_date(jsonld_data.res_nodes[i].created) # None
          /\ jsonld_data.res_nodes[i].title = ResTitle(LongTitle, 1)

\* What C7 says of the output of calculate_cross_person_claims
PartitionHolds(asStated) ==
    "cross_person_claims" \in DOMAIN metrics =>
        LET m == metrics["cross_person_claims"]
            claimed == {i \in 1..Len(experiments) :
                           Present(experiments[i].claimed_by, asStated)}
            known == {i \in claimed : Present(experiments[i].issue_created_by, asStated)}
            self == {i \in known :
                        experiments[i].issue_created_by = experiments[i].claimed_by}
        IN /\ m.self_claim_count = Cardinality(self)
           /\ m.cross_person_count = Cardinality(known \ self)
           /\ m.unknown_count = Cardinality(claimed \ known)
           /\ m.cross_person_count + m.self_claim_count + m.unknown_count
                 = Cardinality(claimed)
           /\ m.idea_exchange_rate =
                 IF m.cross_person_count + m.self_claim_count > 0
                 THEN Round(m.cross_person_count,
                            m.cross_person_count + m.self_claim_count, 1000)
                 ELSE 0

\* C7 as stated: every experiment with non-null claimed_by is counted in exactly
\* one of self / cross / unknown: self or cross with a non-null
\* issue_created_by, unknown with a null one; the three counts add up to the
\* number of claimed experiments and idea_exchange_rate is taken over self+cross.
C7_AsStated == PartitionHolds(TRUE)

\* C7 amended: the same with 'non-null' read as 'neither null nor the empty
\* string': an experiment whose claimed_by is empty is not counted at all, and
\* one whose issue_created_by is empty is unknown.
C7_SelfCrossPartition == PartitionHolds(FALSE)

\* one cross-person claim and one unknown: the rate is 100.0 over the one record
C7_Witness ==
    /\ "cross_person_claims" \in DOMAIN metrics
    /\ metrics["cross_person_claims"].cross_person_count = 1
    /\ metrics["cross_person_claims"].unknown_count = 1
    /\ metrics["cross_person_claims"].self_claim_count = 0
    /\ metrics["cross_person_claims"].idea_exchange_rate = 1000

\* C8: two runs of calculate_all_metrics on the same files return the same
\* metrics, the order of every 'contributors' list and every first_res_title
\* included.
C8_Determinism ==
    Len(returned) = 2 => returned[1].metrics = returned[2].metrics

----------------------------------------------------------------------------
(* Properties of metric 2, time to claim *)

\* the experiments metric 2 is stated to cover: the three fields are not null
HasClaimTimes(e) ==
    e.claimed_by # None /\ e.page_created # None /\ e.claimed_by_timestamp # None

\* C11: calculate_time_to_claim has exactly one detail entry for each experiment
\* whose claimed_by, page_created and claimed_by_timestamp are all non-null and
\* none for any other; days_to_claim is the number of whole days from
\* page_created to claimed_by_timestamp; count is the number of entries and
\* min_days <= median_days <= max_days.
C11_TimeToClaimDetails ==
    "time_to_claim" \in DOMAIN metrics =>
        LET m == metrics.time_to_claim
            eligible == {i \in 1..Len(experiments) : HasClaimTimes(experiments[i])}
            entries == 1..Len(m.details)
        IN /\ Len(m.details) = Cardinality(eligible)
           /\ \A i \in eligible :
                 Cardinality({j \in entries :
                     /\ m.details[j].title = experiments[i].title
                     /\ m.details[j].claimed_by = experiments[i].claimed_by
                     /\ m.details[j].page_created = experiments[i].page_created
                     /\ m.details[j].claimed_timestamp
                            = experiments[i].claimed_by_timestamp}) = 1
           /\ \A j \in entries :
                 /\ \E i \in eligible : experiments[i].title = m.details[j].title
                 /\ 24 * m.details[j].days_to_claim
                        <= m.details[j].claimed_timestamp.t - m.details[j].page_created.t
                 /\ m.details[j].claimed_timestamp.t - m.details[j].page_created.t
                        < 24 * (m.details[j].days_to_claim + 1)
           /\ m.count = Len(m.details)
           /\ m.count > 0 =>
                 /\ m.min_days.n <= m.median_days.n
                 /\ m.median_days.n <= m.max_days.n

\* two experiments, one claimed a whole day after its page was created, the
\* other without a claim timestamp
C11_Witness ==
    /\ "time_to_claim" \in DOMAIN metrics
    /\ Len(experiments) = 2
    /\ metrics.time_to_claim.count = 1
    /\ metrics.time_to_claim.details[1].days_to_claim = 1
    /\ \E i \in 1..2 : ~HasClaimTimes(experiments[i])

\* C12: for an even-sized sample of days_to_claim, median_days is the lower of
\* the two middle values of the sorted list.
C12_MedianIsLowerMiddle ==
    "time_to_claim" \in DOMAIN metrics =>
        LET m == metrics.time_to_claim
        IN (m.count > 0 /\ m.count % 2 = 0) =>
               m.median_days.n = m.details[m.count \div 2].days_to_claim

----------------------------------------------------------------------------
(* Properties of metric 3, time to first result *)

\* the place among the experiments with is_claimed of experiment i, which is
\* the place of its list in linked_lists
KeptIndex(i) == Cardinality({j \in 1..i : experiments[j].is_claimed})

\* the reference instant as metric 3 is stated to take it
ReferenceInstant(e) ==
    IF e.claim_type = EXPLICIT /\ e.claimed_by_timestamp # None
    THEN e.claimed_by_timestamp ELSE e.page_created

----------------------------------------------------------------------------
(* Properties of metric 4, unique contributors *)

\* the names C14 counts for experiment i, linked being the Results linked to it
NamesOf(e, linked, asStated) ==
    {p \in {e.issue_created_by, e.claimed_by, e.creator, e.primary_contributor} :
        Present(p, asStated)}
    \cup {p \in {linked[k].creator : k \in 1..Len(linked)} : Present(p, asStated)}
    \cup {p \in {linked[k].primary_contributor : k \in 1..Len(linked)} :
             Present(p, asStated)}

\* What C14 says of the output of calculate_unique_contributors
ContributorsHold(asStated) ==
    "unique_contributors" \in DOMAIN metrics =>
        LET m == metrics.unique_contributors
            entries == 1..Len(m.details)
            analysed == {i \in 1..Len(experiments) : experiments[i].is_claimed}
            total[cs \in SUBSET (DOMAIN m.distribution)] ==
                IF cs = {} THEN 0
                ELSE LET c == CHOOSE x \in cs : TRUE
                     IN m.distribution[c] + total[cs \ {c}]
        IN /\ m.experiments_analyzed = Cardinality(analysed)
           /\ Len(m.details) = Cardinality(analysed)
           /\ \A j \in entries :
                 \E i \in analysed : experiments[i].title = m.details[j].title
           /\ \A i \in analysed :
                 \E j \in entries :
                    /\ m.details[j].title = experiments[i].title
                    /\ m.details[j].count =
                          Cardinality(NamesOf(experiments[i], linked_lists[KeptIndex(i)],
                                              asStated))
           /\ total[DOMAIN m.distribution] = m.experiments_analyzed

\* C14 as stated: for each experiment with is_claimed, count is the number of
\* distinct non-null names among issue_created_by, claimed_by, creator,
\* primary_contributor and the creator and primary_contributor of every linked
\* Result; experiments without is_claimed are not analysed; the values of the
\* distribution add up to experiments_analyzed.
C14_AsStated == ContributorsHold(TRUE)

\* C14 amended: the same with the names that are neither null nor the empty
\* string.
C14_UniqueContributors == ContributorsHold(FALSE)

\* an experiment whose own fields name one person and whose second linked
\* Result was created by another
C14_Witness ==
    /\ "unique_contributors" \in DOMAIN metrics
    /\ metrics.unique_contributors.experiments_analyzed = 1
    /\ Len(linked_lists[1]) = 2
    /\ metrics.unique_contributors.details[1].count = 2
    /\ \E i \in 1..Len(experiments) :
          /\ experiments[i].is_claimed
          /\ Cardinality(NamesOf(experiments[i], << >>, FALSE)) = 1

----------------------------------------------------------------------------
(* Metric 1 against metric 5 *)

\* C15: on the same experiment list the breakdown of metric 1 agrees with
\* metric 5: the cross-person, self and unknown counts are equal and the
\* number of claimed experiments of metric 1 is total_claimed of metric 5.
C15_BreakdownsAgree ==
    ("conversion_rate" \in DOMAIN metrics /\ "cross_person_claims" \in DOMAIN metrics) =>
        /\ metrics.conversion_rate.cross_person_claims
               = metrics.cross_person_claims.cross_person_count
        /\ metrics.conversion_rate.self_claims
               = metrics.cross_person_claims.self_claim_count
        /\ metrics.conversion_rate.unknown_claim_type
               = metrics.cross_person_claims.unknown_count
        /\ metrics.conversion_rate.claimed_experiments
               = metrics.cross_person_claims.total_claimed

\* a self claim, a cross-person claim, and an issue creator that is the empty string
C15_Witness ==
    /\ "conversion_rate" \in DOMAIN metrics
    /\ "cross_person_claims" \in DOMAIN metrics
    /\ metrics.conversion_rate.claimed_experiments = 2
    /\ metrics.cross_person_claims.cross_person_count = 1
    /\ metrics.cross_person_claims.unknown_count = 1
    /\ \E i \in 1..Len(experiments) :
          Truthy(experiments[i].claimed_by) /\ experiments[i].issue_created_by = S("")

----------------------------------------------------------------------------
(* Zero denominators *)

\* C16: with a zero denominator no rate or average raises:
\* conversion_rate_percent is 0 without issues, idea_exchange_rate is 0 without
\* self and cross-person claims, claiming_to_result_percent is exactly 0
\* without claimed issues, and the time-to-claim, time-to-first-result and
\* unique-contributor results without eligible records have count 0, null
\* averages and empty details.
C16_ZeroDenominators ==
    /\ pc # "ZeroDivisionError"
    /\ ("conversion_rate" \in DOMAIN metrics /\ Len(experiments) = 0 /\ Len(iss_nodes) = 0) =>
          /\ metrics.conversion_rate.total_issues = 0
          /\ metrics.conversion_rate.conversion_rate_percent = 0
    /\ ( /\ "cross_person_claims" \in DOMAIN metrics
         /\ \A i \in 1..Len(experiments) : experiments[i].claimed_by = None ) =>
          metrics.cross_person_claims.idea_exchange_rate = 0
    /\ (pc = "bundle_written" /\ metrics.conversion_rate.total_claimed = 0) =>
          evidence.claiming_to_result_percent = Num(0)
    /\ ( /\ "time_to_claim" \in DOMAIN metrics
         /\ \A i \in 1..Len(experiments) : ~HasClaimTimes(experiments[i]) ) =>
          /\ metrics.time_to_claim.count = 0
          /\ metrics.time_to_claim.avg_days = None
          /\ metrics.time_to_claim.details = << >>
    /\ ( /\ "time_to_first_result" \in DOMAIN metrics
         /\ \A i \in 1..Len(linked_lists) : linked_lists[i] = << >> ) =>
          /\ metrics.time_to_first_result.count = 0
          /\ metrics.time_to_first_result.avg_days = None
          /\ metrics.time_to_first_result.details = << >>
    /\ ( /\ "unique_contributors" \in DOMAIN metrics
         /\ \A i \in 1..Len(experiments) : ~experiments[i].is_claimed ) =>
          /\ metrics.unique_contributors.experiments_analyzed = 0
          /\ metrics.unique_contributors.avg_contributors = None
          /\ metrics.unique_contributors.details = << >>

\* the bundle written for exports that hold no experiment and no issue
C16_Witness ==
    /\ pc = "bundle_written"
    /\ Len(experiments) = 0
    /\ Len(iss_nodes) = 0
    /\ metrics.conversion_rate.total_issues = 0
    /\ metrics.time_to_claim.count = 0
    /\ evidence.claiming_to_result_percent = Num(0)

----------------------------------------------------------------------------
(* Malformed records and entity kinds of the semantic export *)

RawTitle(i) == Get(graph[i], "title", << >>)
RawType(i) == Get(graph[i], "@type", None)
IsExperimentTitle(title) ==
    Len(title) >= 3 /\ title[1] = "@" /\ IsLetters(title[2]) /\ title[3] = "/"

\* C17: a single malformed record (a relation instance without source or
\* destination, a node without title, an unparseable created date, a field
\* that no pattern matches) loses that field only and never aborts the batch:
\* no exception leaves a metric function, analyze_graph keeps every relation
\* instance and every other node, the merge keeps every experiment (an
\* unparseable date gives no page_created unless the block tree has one), and
\* the run returns all five metrics.
C17_MalformedRecordNeverAborts ==
    /\ pc # "AttributeError"
    /\ pc \notin {"run_pipeline", "returned_none", "analyze_graph"} =>
          /\ Len(jsonld_data.relation_instances)
                = Cardinality({i \in 1..Len(graph) : RawType(i) = S("relationInstance")})
          /\ Len(jsonld_data.experiment_pages)
                = Cardinality({i \in 1..Len(graph) : IsExperimentTitle(RawTitle(i))})
          /\ Len(jsonld_data.res_nodes)
                = Cardinality({i \in 1..Len(graph) : HasMarker(RawTitle(i), "[[RES]]")})
          /\ jsonld_data.total_content_nodes
                = Cardinality({i \in 1..Len(graph) :
                                  RawType(i) \notin {S("nodeSchema"), S("relationInstance")}})
    /\ pc \notin {"run_pipeline", "returned_none", "analyze_graph", "analyze_exp", "analyze_iss",
             "merge_exp"} =>
          /\ Len(experiments) = Len(jsonld_data.experiment_pages)
          /\ \A i \in 1..Len(experiments) :
                (jsonld_data.experiment_pages[i].created = Malformed /\ roam_pages = << >>)
                    => experiments[i].page_created = None
    /\ \A i \in 1..Len(returned) :
          DOMAIN returned[i].metrics
              = {"conversion_rate", "time_to_claim", "time_to_first_result",
                 "unique_contributors", "cross_person_claims"}

UidsOf(nodes) == {nodes[i].uid : i \in 1..Len(nodes)}

\* C19: no node of the semantic export is classified into more than one
\* entity kind: the experiment_pages, iss_nodes and res_nodes lists of
\* analyze_graph are pairwise disjoint, and so are the per-type lists of
\* all_nodes_by_type.
C19_EntityKindsDisjoint ==
    pc \notin {"run_pipeline", "returned_none", "analyze_graph"} =>
        /\ UidsOf(jsonld_data.experiment_pages) \cap UidsOf(jsonld_data.iss_nodes) = {}
        /\ UidsOf(jsonld_data.experiment_pages) \cap UidsOf(jsonld_data.res_nodes) = {}
        /\ UidsOf(jsonld_data.iss_nodes) \cap UidsOf(jsonld_data.res_nodes) = {}
        /\ \A t \in Range(NodeTypes), u \in Range(NodeTypes) :
              t # u => UidsOf(jsonld_data.all_nodes_by_type[t])
                          \cap UidsOf(jsonld_data.all_nodes_by_type[u]) = {}

\* C18: when the title-overlap validator finds the two exports to describe
\* different workspaces (fewer than half of the semantic export's experiment
\* and issue titles are in the block-tree export), the pipeline stops before
\* producing any metric; and when an input file is absent no metric is
\* computed and no output is written.
C18_PreconditionFailuresAreFatal ==
    /\ ~(files.jsonld /\ files.roam) =>
          /\ metrics = << >> /\ returned = << >> /\ evidence = << >>
          /\ pc \in {"run_pipeline", "returned_none"}
    /\ ( /\ pc \notin {"run_pipeline", "returned_none", "analyze_graph"}
         /\ "raised" \in DOMAIN validate_roam_export(roam_pages, jsonld_data,
                                                        DefaultMinMatchRate) )
          => (metrics = << >> /\ returned = << >>)

----------------------------------------------------------------------------
(* Frame of the metric functions *)

----------------------------------------------------------------------------
(* The tiers of the result linker *)

\* the run has linked the Results to the claimed experiments
Linked == pc \in {"unique_contributors", "cross_person_claims", "return", "done"}

Resolvable(res) == normalize_datetime(parse_date(res.created)) # None

\* the uids joined to an experiment by a relation instance, in either direction
EdgeUids(e) ==
    {u \in UidsOf(jsonld_data.res_nodes) :
        \E i \in 1..Len(jsonld_data.relation_instances) :
            LET rel == jsonld_data.relation_instances[i]
            IN \/ StripPages(rel.source.s) = e.uid /\ StripPages(rel.destination.s) = u
               \/ StripPages(rel.source.s) = u /\ StripPages(rel.destination.s) = e.uid}

\* what each tier matches, as sets of uids
Tier1Uids(e) ==
    {u \in EdgeUids(e) : Resolvable(res_by_uid_of(jsonld_data.res_nodes)[u])}

TitleUids(needle) ==
    {jsonld_data.res_nodes[i].uid :
        i \in {j \in 1..Len(jsonld_data.res_nodes) :
                  /\ Resolvable(jsonld_data.res_nodes[j])
                  /\ Contains(LowerTitle(jsonld_data.res_nodes[j].title), needle)}}

Tier2Uids(e) == TitleUids(<<"[[">> \o LowerTitle(e.title) \o <<"]]">>)

Tier3Uids(e) ==
    IF StrLen(exp_short_name_of(e.title)) >= MinShortNameLen
    THEN TitleUids(exp_short_name_of(e.title)) ELSE {}

\* C21: each tier of _find_linked_res_nodes is attempted only if the tiers
\* before it matched nothing: the list is exactly the relation-instance
\* matches when there are any, else the back-reference matches when there are
\* any (with or without a relation instance), else the short-name matches.
C21_TierCascade ==
    Linked =>
        \A i \in 1..Len(experiments) :
            experiments[i].is_claimed =>
                UidsOf(linked_lists[KeptIndex(i)])
                    = IF Tier1Uids(experiments[i]) # {} THEN Tier1Uids(experiments[i])
                      ELSE IF Tier2Uids(experiments[i]) # {} THEN Tier2Uids(experiments[i])
                      ELSE Tier3Uids(experiments[i])

\* a relation instance joins the experiment to one Result while another Result
\* carries a back-reference to it, and only the first is linked
C21_Witness ==
    /\ Linked
    /\ \E i \in 1..Len(experiments) :
          /\ experiments[i].is_claimed
          /\ Tier1Uids(experiments[i]) # {}
          /\ Tier2Uids(experiments[i]) \ Tier1Uids(experiments[i]) # {}
          /\ UidsOf(linked_lists[KeptIndex(i)]) = Tier1Uids(experiments[i])

\* the lower-cased text of an experiment title after its first '/'
TextAfterFirstSlash(title) ==
    LET slashes == {i \in 1..Len(title) : title[i] = "/"}
    IN IF slashes = {} THEN LowerTitle(title)
       ELSE SubSeq(LowerTitle(title), (CHOOSE i \in slashes : \A j \in slashes : i <= j) + 1,
                   Len(title))

\* C22: when tier 3 of _find_linked_res_nodes is reached, a Result with a
\* resolvable creation timestamp is linked iff its lower-cased title contains
\* the whole lower-cased text of the experiment title after its first '/', and
\* only when that text has at least 20 characters; otherwise nothing is linked.
C22_ShortNameTier ==
    Linked =>
        \A i \in 1..Len(experiments) :
            ( /\ experiments[i].is_claimed
              /\ Tier1Uids(experiments[i]) = {}
              /\ Tier2Uids(experiments[i]) = {} )
            => UidsOf(linked_lists[KeptIndex(i)])
                  = IF StrLen(TextAfterFirstSlash(experiments[i].title)) >= MinShortNameLen
                    THEN TitleUids(TextAfterFirstSlash(experiments[i].title))
                    ELSE {}

----------------------------------------------------------------------------
(* Duplicate keys *)

\* the first page of the stream with the given title
FirstPageTitled(title) ==
    roam_pages[CHOOSE i \in 1..Len(roam_pages) :
                  /\ roam_pages[i].title = title
                  /\ \A j \in 1..(i - 1) : roam_pages[j].title # title]

\* the first Result of the semantic export with the given uid
FirstResultOf(uid) ==
    jsonld_data.res_nodes[CHOOSE i \in 1..Len(jsonld_data.res_nodes) :
                             /\ jsonld_data.res_nodes[i].uid = uid
                             /\ \A j \in 1..(i - 1) : jsonld_data.res_nodes[j].uid # uid]

\* C23: duplicate keys resolve by first match, never by last write: the facts
\* recorded for a title by analyze_all_experiment_pages and analyze_iss_pages
\* are those of the first page of that title in stream order, and a Result
\* looked up by uid for a relation instance is the first Result of that uid.
C23_FirstMatchWins ==
    /\ \A title \in DOMAIN roam_exp_data :
          roam_exp_data[title] = ExperimentPageFacts(FirstPageTitled(title))
    /\ \A title \in DOMAIN roam_iss_data :
          roam_iss_data[title] = IssPageFacts(FirstPageTitled(title))
    /\ Linked =>
          \A i \in 1..Len(experiments) :
              (experiments[i].is_claimed /\ Tier1Uids(experiments[i]) # {}) =>
                  \A k \in 1..Len(linked_lists[KeptIndex(i)]) :
                      LET entry == linked_lists[KeptIndex(i)][k]
                      IN /\ entry.title = FirstResultOf(entry.uid).title
                         /\ entry.created
                               = normalize_datetime(parse_date(FirstResultOf(entry.uid).created))

----------------------------------------------------------------------------
(* made_by in the block-tree reader *)

\* the person and timestamp of the first block, in document order, whose
\* string satisfies the test and names a person after one of the fields
FirstDeclaring(blocks, hits, fields) ==
    IF hits = {} THEN None
    ELSE LET block == blocks[CHOOSE i \in hits : \A j \in hits : i <= j]
         IN IF FieldRef(block.string, fields, {}) = None THEN None
            ELSE Pair(FieldRef(block.string, fields, {}), get_block_timestamp(block))

MadeByAsStated(page) ==
    LET bs == Preorder(page.children)
        made == FirstDeclaring(bs, {i \in 1..Len(bs) : MatchesMadeBy(bs[i].string)},
                               {"Made by::", "Made By::"})
        creator == FirstDeclaring(bs, {i \in 1..Len(bs) : MatchesCreator(bs[i].string)},
                                  {"Creator::"})
        created == FirstDeclaring(bs, {i \in 1..Len(bs) :
                                          /\ MatchesCreatedBy(bs[i].string)
                                          /\ ~MatchesIssueCreatedBy(bs[i].string)},
                                  {"Created By::", "Created by::"})
    IN IF made # None THEN made ELSE IF creator # None THEN creator ELSE created

\* C24: the block-tree reader takes made_by from the first block, depth first,
\* that declares Made by::, else Creator::, else Created by::, a Created by::
\* block counting whenever it is not itself an Issue Created By:: block: a page
\* with an Issue Created By:: block and a separate Created by:: [[P]] block
\* gives P in either order, and an Issue Created By:: block alone gives none.
C24_MadeByFirstDeclaringBlock ==
    \A title \in DOMAIN roam_exp_data :
        \A i \in 1..Len(roam_pages) :
            roam_pages[i].title = title =>
                roam_exp_data[title].made_by = MadeByAsStated(roam_pages[i])

----------------------------------------------------------------------------
(* The title-overlap validator *)

\* the semantic export's experiment and issue titles, and those of them that
\* the block-tree export holds as an experiment page or an issue page
ExportTitles(nodes) == {nodes[i].title : i \in 1..Len(nodes)}
FoundTitles(nodes) ==
    {t \in ExportTitles(nodes) : \E i \in 1..Len(roam_pages) : roam_pages[i].title = t}
TotalTitles ==
    Cardinality(ExportTitles(jsonld_data.experiment_pages))
    + Cardinality(ExportTitles(jsonld_data.iss_nodes))
MatchedTitles ==
    Cardinality(FoundTitles(jsonld_data.experiment_pages))
    + Cardinality(FoundTitles(jsonld_data.iss_nodes))

\* matched / total < min_match_rate / 100, the rate being 0 without titles
BelowThreshold(min_match_rate) ==
    IF TotalTitles = 0 THEN 0 < min_match_rate
    ELSE 100 * MatchedTitles < min_match_rate * TotalTitles

\* C25: validate_roam_export raises ValueError if and only if the fraction of
\* the semantic export's experiment and issue titles found in the block-tree
\* export is below min_match_rate (0 when there are no such titles); at or
\* above the threshold it returns a result with passed true.
C25_ValidatorThreshold ==
    validation # << >> =>
        /\ ("raised" \in DOMAIN validation.outcome) <=> BelowThreshold(validation.min_match_rate)
        /\ "raised" \in DOMAIN validation.outcome =>
              (validation.outcome.raised = "ValueError" /\ pc = "ValueError")
        /\ "raised" \notin DOMAIN validation.outcome => validation.outcome.passed

\* one of two titles is found, exactly the default threshold, and the call
\* returns
C25_Witness ==
    /\ validation # << >>
    /\ validation.min_match_rate = DefaultMinMatchRate
    /\ TotalTitles = 2 /\ MatchedTitles = 1
    /\ pc = "validated"

----------------------------------------------------------------------------
(* The product-limit estimate *)

Subjects == 1..Len(event_list)
AtRisk(t) == Cardinality({i \in Subjects : event_list[i].t >= t})
Deaths(t) == Cardinality({i \in Subjects : event_list[i].t = t /\ event_list[i].event})
EventTimes == {t \in 1..MaxDay : Deaths(t) > 0}

\* the product over the times ts of (1 - Deaths / AtRisk), as <<num, den>>
RECURSIVE ProductLimit(_)
ProductLimit(ts) ==
    IF ts = {} THEN <<1, 1>>
    ELSE LET t == CHOOSE x \in ts : TRUE
             rest == ProductLimit(ts \ {t})
         IN <<rest[1] * (AtRisk(t) - Deaths(t)), rest[2] * AtRisk(t)>>

\* C26: kaplan_meier follows the product-limit rule: from survival 1 at time
\* 0, each distinct time with d events multiplies the survival by
\* (1 - d / n_at_risk) with the n_at_risk before that time, n_at_risk then
\* falling by the events and the censorings of that time; a time with
\* censorings only adds no step; the survival sequence is non-increasing and
\* stays within [0, 1].
C26_ProductLimit ==
    (pc = "plotted" /\ event_list # << >>) =>
        /\ Len(km.times) = 1 + Cardinality(EventTimes)
        /\ Len(km.surv) = Len(km.times)
        /\ km.times[1] = 0
        /\ km.surv[1].num = km.surv[1].den
        /\ \A k \in 2..Len(km.times) :
              LET expected == ProductLimit({u \in EventTimes : u <= km.times[k]})
              IN /\ km.times[k] \in EventTimes
                 /\ km.times[k - 1] < km.times[k]
                 /\ km.surv[k].num * expected[2] = expected[1] * km.surv[k].den
                 /\ km.surv[k].num * km.surv[k - 1].den <= km.surv[k - 1].num * km.surv[k].den
        /\ \A k \in 1..Len(km.surv) :
              km.surv[k].den > 0 /\ 0 <= km.surv[k].num /\ km.surv[k].num <= km.surv[k].den

\* five subjects, one event on the first day and censorings after it: the
\* survival is 4/5 and the later day adds no step
C26_Witness ==
    /\ pc = "plotted"
    /\ Len(event_list) = 5
    /\ Deaths(1) = 1 /\ Deaths(2) = 0 /\ AtRisk(2) >= 1
    /\ Len(km.surv) = 2
    /\ km.surv[2].num * 5 = 4 * km.surv[2].den

----------------------------------------------------------------------------
(* Claim instants and page creation *)

\* C27: every merged experiment record with a non-null claimed_by_timestamp
\* and a non-null page_created has claimed_by_timestamp >= page_created, for
\* explicit and for inferred claims, and every days_to_claim reported by
\* calculate_time_to_claim is >= 0.
C27_ClaimNotBeforePageCreated ==
    /\ \A i \in 1..Len(experiments) :
          (experiments[i].claimed_by_timestamp # None /\ experiments[i].page_created # None)
              => experiments[i].claimed_by_timestamp.t >= experiments[i].page_created.t
    /\ "time_to_claim" \in DOMAIN metrics =>
          \A j \in 1..Len(metrics.time_to_claim.details) :
              metrics.time_to_claim.details[j].days_to_claim >= 0

\* an explicit claim made after the page was created and an inferred claim
\* whose log entry is the earliest block of its page, both reported
C27_Witness ==
    /\ "time_to_claim" \in DOMAIN metrics
    /\ metrics.time_to_claim.count = 2
    /\ \E i \in 1..Len(experiments) :
          /\ experiments[i].claim_type = EXPLICIT
          /\ experiments[i].page_created # None
          /\ experiments[i].claimed_by_timestamp.t > experiments[i].page_created.t
    /\ \E i \in 1..Len(experiments) :
          /\ experiments[i].claim_type = INFERRED
          /\ experiments[i].claimed_by_timestamp # None
          /\ experiments[i].page_created = experiments[i].claimed_by_timestamp

----------------------------------------------------------------------------
(* The funnel: experiments with results among the claimed *)

\* C28: time_to_first_result.count <= conversion_rate.total_claimed, so the
\* bundle's claimed_without_results is >= 0 and its claim_to_result_percent
\* and claiming_to_result_percent are <= 100.
C28_ResultsWithinClaimed ==
    /\ {"conversion_rate", "time_to_first_result"} \subseteq DOMAIN metrics =>
          metrics.time_to_first_result.count <= metrics.conversion_rate.total_claimed
    /\ pc \in {"funnel_written", "bundle_written"} =>
          /\ funnel.result_breakdown.claimed_without_results >= 0
          /\ funnel.conversion_rates.claim_to_result_percent <= 1000
    /\ pc = "bundle_written" => evidence.claiming_to_result_percent.n <= 1000

----------------------------------------------------------------------------
(* Contributors per analysed experiment *)

\* C29: each experiment analysed by calculate_unique_contributors has at
\* least one contributor, so single_contributor_count +
\* multi_contributor_count equals experiments_analyzed.
C29_SingleAndMultiCoverAll ==
    "unique_contributors" \in DOMAIN metrics =>
        LET u == metrics.unique_contributors
        IN /\ \A j \in 1..Len(u.details) : u.details[j].count >= 1
           /\ u.single_contributor_count + u.multi_contributor_count
                  = u.experiments_analyzed

----------------------------------------------------------------------------
(* Inferred claims in the cross-person metric *)

\* issue_created_by of record i as the merger has it before the inference
\* (lines 69-72)
IssueCreatedByBeforeInference(i) ==
    Overridden(SourceOf(i).issue_created_by,
               Get(FactsOf(SourceOf(i)), "issue_created_by", None))

TitlesOf(entries) == {entries[j].title : j \in 1..Len(entries)}

\* C30: every merged experiment record with claim_type 'inferred' has a
\* non-null issue_created_by, and calculate_cross_person_claims never lists it
\* as unknown: it is a self-claim when issue_created_by was backfilled from
\* creator, and a cross-person claim exactly when an issue_created_by that was
\* there before the inference differs from creator.
C30_InferredClaimsAreClassified ==
    \A i \in 1..Len(experiments) :
        experiments[i].claim_type = INFERRED =>
            LET e == experiments[i]
                before == IssueCreatedByBeforeInference(i)
                backfilled == ~Truthy(before)
            IN /\ e.issue_created_by # None
               /\ Truthy(e.issue_created_by)
               /\ backfilled => e.issue_created_by = e.creator
               /\ ~backfilled => e.issue_created_by = before
               /\ "cross_person_claims" \in DOMAIN metrics =>
                     LET m == metrics.cross_person_claims
                     IN /\ e.title \in TitlesOf(m.self_claim_details)
                                          \cup TitlesOf(m.cross_person_details)
                        /\ backfilled => e.title \in TitlesOf(m.self_claim_details)
                        /\ e.title \in TitlesOf(m.cross_person_details)
                               <=> (~backfilled /\ before # e.creator)
                        /\ e.title \in TitlesOf(m.self_claim_details)
                               <=> e.title \notin TitlesOf(m.cross_person_details)

\* two inferred claims classified: one whose issue creator was backfilled, a
\* self-claim, and one whose issue creator was another person, a cross-person
\* claim
C30_Witness ==
    /\ "cross_person_claims" \in DOMAIN metrics
    /\ \E i \in 1..Len(experiments) :
          /\ experiments[i].claim_type = INFERRED
          /\ ~Truthy(IssueCreatedByBeforeInference(i))
          /\ experiments[i].title \in TitlesOf(metrics.cross_person_claims.self_claim_details)
    /\ \E i \in 1..Len(experiments) :
          /\ experiments[i].claim_type = INFERRED
          /\ Truthy(IssueCreatedByBeforeInference(i))
          /\ experiments[i].title \in TitlesOf(metrics.cross_person_claims.cross_person_details)

====
